---------------------------- MODULE Spec2Model ----------------------------
(***************************************************************************)
(* ByteMessage: typed fields, blobs and checksums over a shared fixed-size *)
(* message buffer.                                                         *)
(*                                                                         *)
(* Representation.                                                         *)
(*   - A buffer is a sequence of bytes 0..255; byte offset o of the C      *)
(*     array is element o+1 of the sequence.  A pointer is an offset.      *)
(*   - A native unsigned integer of k bytes is the sequence of its k       *)
(*     base-256 digits, least significant digit first (u[1] = v mod 256).  *)
(*     The model checker's integers are 32 bits wide, so 32 and 64 bit     *)
(*     quantities are always carried as digits.                            *)
(*   - A native signed integer is the record [neg, mag]: its sign and the  *)
(*     digits of its magnitude.  Field values are such records (an         *)
(*     unsigned value has neg = FALSE).                                    *)
(*   - Data model: int and uint_fast16_t are 16 bits wide, uint_fast8_t 8, *)
(*     uint_fast32_t 32 and uint_fast64_t 64 (the 8-bit Arduino targets).  *)
(*     Where that makes an expression undefined (a shift by at least the   *)
(*     width of the promoted operand, a division by zero) the outcome is   *)
(*     drawn from UBChoices.                                               *)
(***************************************************************************)
EXTENDS Integers, Sequences, FiniteSets, TLC

VARIABLES
    buf,    \* the byte array the views point into (ByteMessage::msgarr, or a test array)
    pre,    \* buf as it was before the last operation
    op,     \* name of the last operation
    arg,    \* argument of the last operation
    ret,    \* value returned by the last operation
    cfg     \* what was fixed at construction: bound offsets, sizes, function pointer

vars == <<buf, pre, op, arg, ret, cfg>>

-----------------------------------------------------------------------------
(* Bounds of the model *)

\* Length of the byte array of the field specification.
FieldBufLen == 10

\* Length of the byte array of the blob specification.
BlobBufLen == 6

\* Largest blob size constructed.
MaxBlobSize == 4

\* Length of the source arrays handed to ByteMessageFieldBlob::set.
SrcLen == 6

\* The checksum functions are called on every sequence of sample bytes of length
\* at most ShortLen ...
ShortLen == 4

\* ... and on patterned arrays of every length up to MaxLen (two complete groups
\* of eight bytes and an incomplete third one).
MaxLen == 17

\* Largest offset a checksum member is bound at.
ChkMaxPos == 3

-----------------------------------------------------------------------------
(* Fixed-width unsigned arithmetic on digit sequences *)

UINT8_MAX == 255

Byte == 0..UINT8_MAX

\* The k-digit zero.
UZero(k) == [i \in 1..k |-> 0]

\* A small integer n (0 <= n < 2^31) converted to a k-digit unsigned:
\* static_cast<uintN_t>(n), which truncates when n does not fit.
UFromInt(n, k) ==
    LET pw == <<1, 256, 65536, 16777216>>
    IN  [i \in 1..k |-> IF i <= 4 THEN (n \div pw[i]) % 256 ELSE 0]

\* (a + b) mod 2^(8k) for two k-digit numbers: unsigned addition wraps.
UAdd(a, b) ==
    LET k == Len(a)
        c[i \in 0..k] == IF i = 0 THEN 0 ELSE (a[i] + b[i] + c[i - 1]) \div 256
    IN  [i \in 1..k |-> (a[i] + b[i] + c[i - 1]) % 256]

\* Bitwise complement ~a of a k-digit number.
UNot(a) == [i \in 1..Len(a) |-> UINT8_MAX - a[i]]

\* 0 - a mod 2^(8k): the two's complement of a.
UNeg(a) == UAdd(UNot(a), UFromInt(1, Len(a)))

\* a widened (zero-extended) or truncated to k digits: a conversion between unsigned types.
UResize(a, k) == [i \in 1..k |-> IF i <= Len(a) THEN a[i] ELSE 0]

\* a >> (8 * n), the result keeping a's width.
UShrBytes(a, n) == [i \in 1..Len(a) |-> IF i + n <= Len(a) THEN a[i + n] ELSE 0]

\* The byte b shifted left by sh bits (sh a multiple of 8) in a k-digit number: b << sh.
UByteShl(b, sh, k) == [i \in 1..k |-> IF i = (sh \div 8) + 1 THEN b ELSE 0]

\* static_cast<uintN_t>(v) of a signed value: the value modulo 2^N.
static_cast_unsigned(v) == IF v.neg THEN UNeg(v.mag) ELSE v.mag

\* static_cast<intN_t>(u) of an unsigned value: the top bit is the sign.
static_cast_signed(u) ==
    IF u[Len(u)] >= 128 THEN [neg |-> TRUE, mag |-> UNeg(u)]
    ELSE [neg |-> FALSE, mag |-> u]

\* An unsigned native value as a field value.
UVal(u) == [neg |-> FALSE, mag |-> u]

\* "No value": what arg and ret hold before an operation has filled them.
NoVal == [neg |-> FALSE, mag |-> << >>]

-----------------------------------------------------------------------------
(* netconv: host <-> network byte order, writing to / reading from a byte  *)
(* array at ptr.  Network byte order is most significant byte first.       *)

\* The k bytes of u written to b at offset ptr, most significant first.
hton(b, ptr, u, k) ==
    [i \in 1..Len(b) |-> IF ptr < i /\ i <= ptr + k THEN u[k - (i - ptr - 1)] ELSE b[i]]

\* The k bytes of b at offset ptr read as a number, most significant first.
ntoh(b, ptr, k) == [i \in 1..k |-> b[ptr + k - i + 1]]

htons(value, b, ptr) == hton(b, ptr, value, 2)
ntohs(b, ptr) == ntoh(b, ptr, 2)
htonl(value, b, ptr) == hton(b, ptr, value, 4)
ntohl(b, ptr) == ntoh(b, ptr, 4)
htonll(value, b, ptr) == hton(b, ptr, value, 8)
ntohll(b, ptr) == ntoh(b, ptr, 8)

-----------------------------------------------------------------------------
(* ByteMessageField<T> *)

IntTypes == {"uint8_t", "int8_t", "uint16_t", "int16_t",
             "uint32_t", "int32_t", "uint64_t", "int64_t"}

SignedTypes == {"int8_t", "int16_t", "int32_t", "int64_t"}

\* ByteMessageField<T>::size == sizeof(T)
sizeof(T) ==
    CASE T \in {"uint8_t", "int8_t"} -> 1
      [] T \in {"uint16_t", "int16_t"} -> 2
      [] T \in {"uint32_t", "int32_t"} -> 4
      [] T \in {"uint64_t", "int64_t"} -> 8

\* The constructor: msgptr{messagepointer + pos}.  It writes nothing.
ByteMessageField(messagepointer, pos) == messagepointer + pos

set_uint8_t(b, msgptr, value) == [b EXCEPT ![msgptr + 1] = value.mag[1]]
get_uint8_t(b, msgptr) == UVal(<<b[msgptr + 1]>>)

set_int8_t(b, msgptr, value) == [b EXCEPT ![msgptr + 1] = static_cast_unsigned(value)[1]]

\* Mutant of get_int8_t: the byte is returned without the conversion to int8_t.
get_int8_t_unsigned(b, msgptr) == UVal(<<b[msgptr + 1]>>)

get_int8_t(b, msgptr) == static_cast_signed(<<b[msgptr + 1]>>)

set_uint16_t(b, msgptr, value) == htons(value.mag, b, msgptr)
get_uint16_t(b, msgptr) == UVal(ntohs(b, msgptr))

set_int16_t(b, msgptr, value) == htons(static_cast_unsigned(value), b, msgptr)
get_int16_t(b, msgptr) == static_cast_signed(ntohs(b, msgptr))

\* Mutant of set_uint32_t: the 16-bit conversion is called, as in the
\* specialization above it.
set_uint32_t_short(b, msgptr, value) == htons(value.mag, b, msgptr)

set_uint32_t(b, msgptr, value) == htonl(value.mag, b, msgptr)
get_uint32_t(b, msgptr) == UVal(ntohl(b, msgptr))

set_int32_t(b, msgptr, value) == htonl(static_cast_unsigned(value), b, msgptr)
get_int32_t(b, msgptr) == static_cast_signed(ntohl(b, msgptr))

set_uint64_t(b, msgptr, value) == htonll(value.mag, b, msgptr)
get_uint64_t(b, msgptr) == UVal(ntohll(b, msgptr))

set_int64_t(b, msgptr, value) == htonll(static_cast_unsigned(value), b, msgptr)
get_int64_t(b, msgptr) == static_cast_signed(ntohll(b, msgptr))

\* ByteMessageField<T>::set: the specialization the compiler selects for T.
Field_set(T, b, msgptr, value) ==
    CASE T = "uint8_t"  -> set_uint8_t(b, msgptr, value)
      [] T = "int8_t"   -> set_int8_t(b, msgptr, value)
      [] T = "uint16_t" -> set_uint16_t(b, msgptr, value)
      [] T = "int16_t"  -> set_int16_t(b, msgptr, value)
      [] T = "uint32_t" -> set_uint32_t(b, msgptr, value)
      [] T = "int32_t"  -> set_int32_t(b, msgptr, value)
      [] T = "uint64_t" -> set_uint64_t(b, msgptr, value)
      [] T = "int64_t"  -> set_int64_t(b, msgptr, value)

\* ByteMessageField<T>::get: the specialization the compiler selects for T.
Field_get(T, b, msgptr) ==
    CASE T = "uint8_t"  -> get_uint8_t(b, msgptr)
      [] T = "int8_t"   -> get_int8_t(b, msgptr)
      [] T = "uint16_t" -> get_uint16_t(b, msgptr)
      [] T = "int16_t"  -> get_int16_t(b, msgptr)
      [] T = "uint32_t" -> get_uint32_t(b, msgptr)
      [] T = "int32_t"  -> get_int32_t(b, msgptr)
      [] T = "uint64_t" -> get_uint64_t(b, msgptr)
      [] T = "int64_t"  -> get_int64_t(b, msgptr)

-----------------------------------------------------------------------------
(* Specification SpecField: one ByteMessageField<T> bound into a byte array *)

\* Byte arrays a field is constructed over: zeroed (as in the unit test), all
\* ones, and one whose bytes are pairwise distinct.
FieldBackgrounds ==
    { [i \in 1..FieldBufLen |-> 0],
      [i \in 1..FieldBufLen |-> UINT8_MAX],
      [i \in 1..FieldBufLen |-> 160 + i] }

\* Representable values of T the model sets: 0, 1, the extremes, -1, and
\* values whose bytes are pairwise distinct.
Samples(T) ==
    LET k   == sizeof(T)
        one == UFromInt(1, k)
        pat == [i \in 1..k |-> 8 * i + 1]
        top == [i \in 1..k |-> IF i = k THEN 128 ELSE 0]
        max == [i \in 1..k |-> IF i = k THEN 127 ELSE UINT8_MAX]
    IN  IF T \in SignedTypes
        THEN { UVal(UZero(k)), UVal(one), UVal(max), UVal(pat),
               [neg |-> TRUE, mag |-> one], [neg |-> TRUE, mag |-> top],
               [neg |-> TRUE, mag |-> pat], [neg |-> TRUE, mag |-> max] }
        ELSE { UVal(UZero(k)), UVal(one), UVal(max), UVal(pat), UVal(top),
               UVal(UNot(UZero(k))), UVal(UNot(pat)) }

FieldInit ==
    /\ buf \in FieldBackgrounds
    /\ pre = buf
    /\ \E T \in IntTypes : \E pos \in 0..(FieldBufLen - sizeof(T)) :
           cfg = [T |-> T, msgptr |-> ByteMessageField(0, pos)]
    /\ op = "ctor"
    /\ arg = NoVal
    /\ ret = NoVal

\* bmf.set(v)
FieldSet ==
    \E v \in Samples(cfg.T) :
        /\ pre' = buf
        /\ buf' = Field_set(cfg.T, buf, cfg.msgptr, v)
        /\ op' = "set"
        /\ arg' = v
        /\ ret' = NoVal
        /\ UNCHANGED cfg

\* bmf.get(); arg keeps the value last set.
FieldGet ==
    /\ op \in {"ctor", "set"}
    /\ pre' = buf
    /\ ret' = Field_get(cfg.T, buf, cfg.msgptr)
    /\ op' = "get"
    /\ UNCHANGED <<buf, arg, cfg>>

FieldNext == FieldSet \/ FieldGet

SpecField == FieldInit /\ [][FieldNext]_vars

\* C1: for every integer type T and every representable v, set(v) followed by
\* get() on the same field returns v (a negative v is recovered from the stored
\* two's-complement bit pattern).
C1_SetGetRoundTrip ==
    (op = "get" /\ arg # NoVal) => ret = arg

\* C1 witness: a negative 64-bit value has been set and read back.
C1_Witness ==
    /\ op = "get"
    /\ cfg.T = "int64_t"
    /\ arg # NoVal
    /\ arg.neg
    /\ ret = arg

\* a - 1 for a k-digit number a > 0.
C2_Dec(a) ==
    LET k == Len(a)
        bo[i \in 0..k] == IF i = 0 THEN 1 ELSE IF a[i] - bo[i - 1] < 0 THEN 1 ELSE 0
    IN  [i \in 1..k |-> (a[i] - bo[i - 1] + 256) % 256]

\* Digit j (0 = least significant) of the two's-complement bit pattern of v:
\* the digit of v itself, or of 2^(8k) - |v| = ~(|v| - 1) when v < 0.
C2_PatternDigit(v, j) ==
    IF v.neg THEN UINT8_MAX - C2_Dec(v.mag)[j + 1] ELSE v.mag[j + 1]

-----------------------------------------------------------------------------
(* ByteMessageFieldBlob *)

\* memcpy(dst, src, n) into array b: the first n bytes of the array src.
memcpy(b, dst, src, n) ==
    [i \in 1..Len(b) |-> IF dst < i /\ i <= dst + n THEN src[i - dst] ELSE b[i]]

\* memset(dst, value, n) in array b.
memset(b, dst, value, n) ==
    [i \in 1..Len(b) |-> IF dst < i /\ i <= dst + n THEN value ELSE b[i]]

\* Mutant of zerofill: the comparison is reversed, so nothing is ever padded.
zerofill_reversed(b, msgptr, size, startpos) ==
    IF startpos > size THEN memset(b, msgptr + startpos, 0, size - startpos) ELSE b

\* zerofill(startpos): zero the blob from startpos (relative to its start) on.
zerofill(b, msgptr, size, startpos) ==
    IF startpos < size THEN memset(b, msgptr + startpos, 0, size - startpos) ELSE b

\* The constructor: size{bloblength}, msgptr{messagepointer + pos}; zerofill(0).
\* Gives the object's members and the array as the constructor leaves it.
ByteMessageFieldBlob(b, messagepointer, pos, bloblength) ==
    [size   |-> bloblength,
     msgptr |-> messagepointer + pos,
     buf    |-> zerofill(b, messagepointer + pos, bloblength, 0)]

\* set(data, length): gives the array afterwards and the value returned.
Blob_set(b, msgptr, size, data, length) ==
    LET len == IF length > size THEN size ELSE length
    IN  [buf |-> zerofill(memcpy(b, msgptr, data, len), msgptr, size, len),
         ret |-> len]

\* set(value): gives the array afterwards and the value returned.
Blob_set_value(b, msgptr, size, value) ==
    [buf |-> memset(b, msgptr, value, size), ret |-> size]

-----------------------------------------------------------------------------
(* Specification SpecBlob: one ByteMessageFieldBlob bound into a byte array *)

BlobBackgrounds ==
    { [i \in 1..BlobBufLen |-> UINT8_MAX],
      [i \in 1..BlobBufLen |-> 160 + i] }

\* Source arrays: none of their bytes is zero, so padding can be told from data.
BlobSources ==
    { [i \in 1..SrcLen |-> 16 + i],
      [i \in 1..SrcLen |-> UINT8_MAX] }

BlobInit ==
    \E b \in BlobBackgrounds : \E size \in 0..MaxBlobSize : \E pos \in 0..(BlobBufLen - size) :
        LET blob == ByteMessageFieldBlob(b, 0, pos, size)
        IN  /\ buf = blob.buf
            /\ pre = b
            /\ cfg = [size |-> blob.size, msgptr |-> blob.msgptr]
            /\ op = "ctor"
            /\ arg = [data |-> << >>, length |-> 0]
            /\ ret = 0

\* bmfb.set(data, length), length at most the length of the array data points to.
BlobSet ==
    \E data \in BlobSources : \E length \in 0..SrcLen :
        LET r == Blob_set(buf, cfg.msgptr, cfg.size, data, length)
        IN  /\ pre' = buf
            /\ buf' = r.buf
            /\ ret' = r.ret
            /\ op' = "set"
            /\ arg' = [data |-> data, length |-> length]
            /\ UNCHANGED cfg

\* bmfb.set(value)
BlobSetValue ==
    \E value \in {0, 123, UINT8_MAX} :
        LET r == Blob_set_value(buf, cfg.msgptr, cfg.size, value)
        IN  /\ pre' = buf
            /\ buf' = r.buf
            /\ ret' = r.ret
            /\ op' = "set_value"
            /\ arg' = [data |-> <<value>>, length |-> 1]
            /\ UNCHANGED cfg

BlobNext == BlobSet \/ BlobSetValue

SpecBlob == BlobInit /\ [][BlobNext]_vars

C3_Min(a, b) == IF a < b THEN a ELSE b

\* C3: set(data, L) on a blob of size S returns min(L, S); afterwards region
\* bytes [0, min(L,S)) equal data[0..min(L,S)), region bytes [min(L,S), S) are
\* zero (source bytes beyond S are ignored), and no byte outside the region changed.
C3_BlobSetClampsAndPads ==
    op = "set" =>
        LET n == C3_Min(arg.length, cfg.size)
        IN  /\ ret = n
            /\ Len(buf) = Len(pre)
            /\ \A o \in 0..(Len(buf) - 1) :
                   CASE o < cfg.msgptr \/ o >= cfg.msgptr + cfg.size -> buf[o + 1] = pre[o + 1]
                     [] o >= cfg.msgptr /\ o < cfg.msgptr + n -> buf[o + 1] = arg.data[o - cfg.msgptr + 1]
                     [] OTHER -> buf[o + 1] = 0

\* C3 witness: a blob of size 4 that held 123 in every byte was set from 2
\* source bytes: two bytes copied, two padded with zero.
C3_Witness ==
    /\ op = "set"
    /\ cfg.size = 4
    /\ cfg.msgptr = 1
    /\ arg.length = 2
    /\ ret = 2
    /\ pre[2] = 123 /\ pre[5] = 123
    /\ buf[2] = 17 /\ buf[3] = 18 /\ buf[4] = 0 /\ buf[5] = 0
    /\ buf[1] = pre[1] /\ buf[6] = pre[6]

\* C3 witness of truncation: more source bytes than the blob holds.
C3_WitnessTruncated ==
    /\ op = "set"
    /\ cfg.size = 4
    /\ arg.length = SrcLen
    /\ ret = 4

-----------------------------------------------------------------------------
(* Checksum functions: T f(const uint8_t * data, size_t length).           *)
(* data is the array the pointer points into, read at offsets 0..length-1; *)
(* the value returned is a native unsigned integer of sizeof(T) digits.    *)

UINT16_MAX == 65535

\* UINT_FAST16_MAX of the data model: uint_fast16_t is 16 bits wide.
UINT_FAST16_MAX == 65535

\* What an undefined expression may evaluate to.  shift: a left shift by at
\* least the width of its operand gives 0 ("zero"), shifts by the count modulo
\* the width ("mod"), or behaves as if the operand were wide enough ("wide", which
\* is also what a build with a wider uint_fast type computes).  div: a division
\* by zero traps ("trap") or yields 0 ("zero").
UBChoices == [shift : {"zero", "mod", "wide"}, div : {"trap", "zero"}]

\* What a call returns in the model when the function does not return (a trap).
Fault == <<-1>>

\* n rounds of a loop whose body takes the loop's variables st to F(st).  The
\* rounds are split in halves, the first half computed before the second
\* starts, so that a long input does not need deep recursion.
RECURSIVE Repeat(_, _, _)
Repeat(F(_), st, n) ==
    IF n = 0 THEN st
    ELSE IF n = 1 THEN F(st)
    ELSE LET mid == Repeat(F, st, n \div 2)
         IN  IF mid = mid THEN Repeat(F, mid, n - (n \div 2)) ELSE st

\* a ^ b on non-negative integers.
RECURSIVE BitXor(_, _)
BitXor(a, b) ==
    IF a = 0 THEN b
    ELSE IF b = 0 THEN a
    ELSE ((a + b) % 2) + 2 * BitXor(a \div 2, b \div 2)

\* a | b on non-negative integers.
RECURSIVE BitOr(_, _)
BitOr(a, b) ==
    IF a = 0 THEN b
    ELSE IF b = 0 THEN a
    ELSE (IF a % 2 = 1 \/ b % 2 = 1 THEN 1 ELSE 0) + 2 * BitOr(a \div 2, b \div 2)

\* a | b on two k-digit numbers.
UOr(a, b) == [i \in 1..Len(a) |-> BitOr(a[i], b[i])]

\* static_cast<uint_fastW_t>(byte) << sh, for an operand that is width bits wide
\* after promotion, as a k-digit number (sh is a multiple of 8).  With sh >= width
\* the shift is undefined and ub.shift decides.
ShlByte(byte, sh, width, k, ub) ==
    IF sh < width THEN UByteShl(byte, sh, k)
    ELSE CASE ub.shift = "zero" -> UZero(k)
           [] ub.shift = "mod"  -> UByteShl(byte, sh % width, k)
           [] ub.shift = "wide" -> UByteShl(byte, sh, k)

-----------------------------------------------------------------------------
(* bm_checksum_twosum: two's complement sums *)

\* uint_fast8_t sum: addition wraps at 8 bits.
sum8_checksum(data, length) ==
    LET end == length
        RECURSIVE loop(_, _)
        loop(p, sum) == IF p < end THEN loop(p + 1, (sum + data[p + 1]) % 256) ELSE sum
    IN  UFromInt(loop(0, 0) % (UINT8_MAX + 1), 1)

\* uint_fast16_t sum: addition wraps at 16 bits.
sum16_checksum(data, length) ==
    LET modulus == length % 2
        end == length - modulus
        RECURSIVE loop(_, _)
        loop(p, sum) ==
            IF p < end
            THEN loop(p + 2, (sum + BitOr(data[p + 1] * 256, data[p + 2])) % 65536)
            ELSE sum
        s == loop(0, 0)
        t == IF modulus # 0 THEN (s + data[end + 1] * 256) % 65536 ELSE s
    IN  UFromInt(t % (UINT16_MAX + 1), 2)

\* The remaining bytes of an incomplete group: addend |= byte << (top - i*8), i < modulus.
RECURSIVE twosum_rest(_, _, _, _, _, _)
twosum_rest(data, p, i, modulus, top, addend) ==
    IF i < modulus
    THEN twosum_rest(data, p + 1, i + 1, modulus, top,
                     UOr(addend, UByteShl(data[p + 1], top - i * 8, Len(addend))))
    ELSE addend

sum32_checksum(data, length) ==
    LET modulus == length % 4
        end == length - modulus
        RECURSIVE loop(_, _)
        loop(p, sum) ==
            IF p < end
            THEN LET a1 == UOr(UZero(4), UByteShl(data[p + 1], 24, 4))
                     a2 == UOr(a1, UByteShl(data[p + 2], 16, 4))
                     a3 == UOr(a2, UByteShl(data[p + 3], 8, 4))
                     a4 == UOr(a3, UByteShl(data[p + 4], 0, 4))
                 IN  loop(p + 4, UAdd(sum, a4))
            ELSE sum
        s == loop(0, UZero(4))
    IN  UResize(UAdd(s, twosum_rest(data, end, 0, modulus, 24, UZero(4))), 4)

\* bm_checksum_twosum.cpp as documented: every byte is widened to uint_fast64_t
\* before it is shifted, and all 64 bits are returned.
sum64_checksum(data, length) ==
    LET modulus == length % 8
        end == length - modulus
        RECURSIVE group(_, _, _)
        group(p, j, addend) ==
            IF j < 8
            THEN group(p, j + 1, UOr(addend, UByteShl(data[p + j + 1], 56 - 8 * j, 8)))
            ELSE addend
        RECURSIVE loop(_, _)
        loop(p, sum) ==
            IF p < end THEN loop(p + 8, UAdd(sum, group(p, 0, UZero(8)))) ELSE sum
        s == loop(0, UZero(8))
    IN  UResize(UAdd(s, twosum_rest(data, end, 0, modulus, 56, UZero(8))), 8)

\* The second copy of sum64_checksum: every byte is widened to uint_fast32_t only
\* (32 bits), so the shifts by 56..32 are undefined, and the sum is cut to
\* uint32_t before it is returned as uint64_t.
sum64_checksum_2(data, length, ub) ==
    LET modulus == length % 8
        end == length - modulus
        RECURSIVE group(_, _, _)
        group(p, j, addend) ==
            IF j < 8
            THEN group(p, j + 1,
                       UOr(addend, ShlByte(data[p + j + 1], 56 - 8 * j, 32, 8, ub)))
            ELSE addend
        RECURSIVE loop(_, _)
        loop(p, sum) ==
            IF p < end THEN loop(p + 8, UAdd(sum, group(p, 0, UZero(8)))) ELSE sum
        RECURSIVE rest(_, _, _)
        rest(p, i, addend) ==
            IF i < modulus
            THEN rest(p + 1, i + 1,
                      UOr(addend, ShlByte(data[p + 1], 56 - i * 8, 32, 8, ub)))
            ELSE addend
        s == UAdd(loop(0, UZero(8)), rest(end, 0, UZero(8)))
    IN  UResize(UResize(s, 4), 8)

-----------------------------------------------------------------------------
(* bm_checksum_onesum: one's complement sums *)

\* uint_fast16_t sum, the carry folded after every byte.
onesum8_checksum_textbook(data, length) ==
    LET body(st) ==
            LET t == (st.sum + data[st.p + 1]) % 65536
            IN  [p |-> st.p + 1, sum |-> (t \div 256) + (t % 256)]
        loop(p, len, sum) == Repeat(body, [p |-> p, sum |-> sum], len).sum
    IN  UFromInt(UINT8_MAX - (loop(0, length, 0) % 256), 1)

\* Mutant of fold8: the carry is folded with an if, not a while.
fold8_once(sum) == (sum \div 256) + (sum % 256)

\* while (sum >> 8) sum = (sum >> 8) + (sum & 0xFF);
RECURSIVE fold8(_)
fold8(sum) == IF sum \div 256 # 0 THEN fold8((sum \div 256) + (sum % 256)) ELSE sum

\* Mutant of onesum8_checksum: the carry is folded with an if, not a while.
onesum8_checksum_foldonce(data, length) ==
    LET blocklength_limit == 256
        body(st) == [p |-> st.p + 1, sum |-> (st.sum + data[st.p + 1]) % 65536]
        block(st) ==
            LET blocklength == IF st.length > blocklength_limit
                               THEN blocklength_limit ELSE st.length
                sum == Repeat(body, [p |-> st.p, sum |-> st.sum], blocklength).sum
            IN  [p |-> st.p + blocklength, length |-> st.length - blocklength,
                 sum |-> (sum \div 256) + (sum % 256)]
        blocks == (length + blocklength_limit - 1) \div blocklength_limit
    IN  UFromInt(UINT8_MAX - (Repeat(block, [p |-> 0, length |-> length, sum |-> 0],
                                     blocks).sum % 256), 1)

\* uint_fast16_t sum, the carry folded once per block of blocklength_limit bytes.
onesum8_checksum(data, length) ==
    LET blocklength_limit == 256
        body(st) == [p |-> st.p + 1, sum |-> (st.sum + data[st.p + 1]) % 65536]
        inner(p, blocklength, sum) ==
            Repeat(body, [p |-> p, sum |-> sum], blocklength).sum
        RECURSIVE outer(_, _, _)
        outer(p, len, sum) ==
            IF len > 0
            THEN LET blocklength == IF len > blocklength_limit THEN blocklength_limit ELSE len
                 IN  outer(p + blocklength, len - blocklength,
                           fold8(inner(p, blocklength, sum)))
            ELSE sum
    IN  UFromInt(UINT8_MAX - (outer(0, length, 0) % 256), 1)

\* while (sum >> 16) sum = (sum >> 16) + (sum & 0xFFFF);
RECURSIVE fold16(_)
fold16(sum) == IF sum \div 65536 # 0 THEN fold16((sum \div 65536) + (sum % 65536)) ELSE sum

\* Mutant of onesum16_checksum: the byte pairs are read as little-endian words.
onesum16_checksum_le(data, length) ==
    LET RECURSIVE loop(_, _, _)
        loop(p, len, sum) ==
            IF len > 1 THEN loop(p + 2, len - 2, fold16(sum + data[p + 1] + data[p + 2] * 256))
            ELSE IF len = 1 THEN fold16(sum + data[p + 1])
            ELSE sum
    IN  UFromInt(UINT16_MAX - (loop(0, length, 0) % 65536), 2)

\* uint_fast32_t sum.  A block adds at most 254 words to a folded sum, so the
\* sum stays below 2^24 and never wraps.
onesum16_checksum(data, length) ==
    LET blocklength_limit == 2 * 254
        body(st) ==
            [p |-> st.p + 2, sum |-> st.sum + data[st.p + 1] * 256 + data[st.p + 2]]
        inner(p, blocklength, sum) ==
            LET st == Repeat(body, [p |-> p, sum |-> sum], blocklength \div 2)
            IN  IF blocklength % 2 = 1 THEN st.sum + data[st.p + 1] * 256 ELSE st.sum
        RECURSIVE outer(_, _, _)
        outer(p, len, sum) ==
            IF len > 0
            THEN LET blocklength == IF len > blocklength_limit THEN blocklength_limit ELSE len
                 IN  outer(p + blocklength - (blocklength % 2), len - blocklength,
                           fold16(inner(p, blocklength, sum)))
            ELSE sum
    IN  UFromInt(UINT16_MAX - (outer(0, length, 0) % 65536), 2)

\* uint_fast32_t sum, the carry folded after every word: the sum stays below 2^17.
onesum16_checksum_textbook(data, length) ==
    LET body(st) ==
            LET t == st.sum + BitOr(data[st.p + 1] * 256, data[st.p + 2])
            IN  [p |-> st.p + 2, sum |-> (t \div 65536) + (t % 65536)]
        loop(p, len, sum) ==
            LET st == Repeat(body, [p |-> p, sum |-> sum], len \div 2)
            IN  IF len % 2 = 1 THEN st.sum + data[st.p + 1] * 256 ELSE st.sum
        s == loop(0, length, 0)
    IN  UFromInt(UINT16_MAX - (((s \div 65536) + (s % 65536)) % 65536), 2)

\* One fold step on the 64-bit sum: (sum >> 32) + (sum & 0xFFFFFFFF).
fold32_step(sum) == UAdd(UShrBytes(sum, 4), UResize(UResize(sum, 4), 8))

\* while (sum >> 32) sum = (sum >> 32) + (sum & 0xFFFFFFFF);
RECURSIVE fold32(_)
fold32(sum) == IF UShrBytes(sum, 4) # UZero(8) THEN fold32(fold32_step(sum)) ELSE sum

\* The four bytes at p as one 64-bit addend: bytes[0] | bytes[1] | bytes[2] | bytes[3].
onesum32_word(data, p) ==
    UOr(UOr(UByteShl(data[p + 1], 24, 8), UByteShl(data[p + 2], 16, 8)),
        UOr(UByteShl(data[p + 3], 8, 8), UByteShl(data[p + 4], 0, 8)))

\* for (i = 0; i < modulus; i++) sum += static_cast<uint_fast16_t>(*data) << (24 - 8*i);
\* data is not advanced: every round reads the byte at p.  The operand is 16
\* bits wide, so the shifts by 24 and 16 are undefined.
RECURSIVE onesum32_rest(_, _, _, _, _, _)
onesum32_rest(data, p, i, modulus, sum, ub) ==
    IF i < modulus
    THEN onesum32_rest(data, p, i + 1, modulus,
                       UAdd(sum, ShlByte(data[p + 1], 24 - 8 * i, 16, 8, ub)), ub)
    ELSE sum

\* uint_fast64_t sum, the carry folded once per block; the remaining-bytes loop
\* runs at the end of every block.
onesum32_checksum(data, length, ub) ==
    LET blocklength_limit == 4 * 254
        modulus == length % 4
        body(st) == [p |-> st.p + 4, sum |-> UAdd(st.sum, onesum32_word(data, st.p))]
        inner(p, blocklength, sum) ==
            Repeat(body, [p |-> p, sum |-> sum], blocklength \div 4).sum
        RECURSIVE outer(_, _, _)
        outer(p, len, sum) ==
            IF len > 0
            THEN LET blocklength == IF len > blocklength_limit THEN blocklength_limit ELSE len
                     q == p + blocklength - (blocklength % 4)
                 IN  outer(q, len - blocklength,
                           fold32(onesum32_rest(data, q, 0, modulus,
                                                inner(p, blocklength, sum), ub)))
            ELSE sum
    IN  UNot(UResize(outer(0, length, UZero(8)), 4))

\* uint_fast64_t sum, the carry folded after every word; the same remaining-bytes loop.
onesum32_checksum_textbook(data, length, ub) ==
    LET modulus == length % 4
        body(st) ==
            [p |-> st.p + 4, sum |-> fold32_step(UAdd(st.sum, onesum32_word(data, st.p)))]
        loop(p, len, sum) == Repeat(body, [p |-> p, sum |-> sum], len \div 4)
        s == loop(0, length, UZero(8))
    IN  UNot(UResize(fold32_step(onesum32_rest(data, s.p, 0, modulus, s.sum, ub)), 4))

-----------------------------------------------------------------------------
(* bm_checksum_xor: XOR checksums.  sum is the array of lanes sum[0] .. sum[W-1],
   kept as a sequence indexed from 1. *)

\* The complete groups: sum[j] ^= *data++ for every lane j of every group.
RECURSIVE xor_groups(_, _, _, _)
xor_groups(data, p, end, sum) ==
    IF p < end
    THEN xor_groups(data, p + Len(sum), end,
                    [j \in 1..Len(sum) |-> BitXor(sum[j], data[p + j])])
    ELSE sum

\* The remaining bytes: for (i = 0; i < modulus; i++) sum[i] ^= *data++;
xor_rest(data, p, modulus, sum) ==
    [j \in 1..Len(sum) |-> IF j <= modulus THEN BitXor(sum[j], data[p + j]) ELSE sum[j]]

\* sum[0] << (8*(W-1)) | ... | sum[W-1] as a W-digit number.
xor_pack(sum) == [i \in 1..Len(sum) |-> sum[Len(sum) + 1 - i]]

xor8_checksum(data, length) ==
    xor_pack(xor_groups(data, 0, length, <<0>>))

xor16_checksum(data, length) ==
    LET modulus == length % 2
        end == length - modulus
    IN  xor_pack(xor_rest(data, end, modulus, xor_groups(data, 0, end, <<0, 0>>)))

xor32_checksum(data, length) ==
    LET modulus == length % 4
        end == length - modulus
    IN  xor_pack(xor_rest(data, end, modulus, xor_groups(data, 0, end, <<0, 0, 0, 0>>)))

xor64_checksum(data, length) ==
    LET modulus == length % 8
        end == length - modulus
    IN  xor_pack(xor_rest(data, end, modulus,
                          xor_groups(data, 0, end, <<0, 0, 0, 0, 0, 0, 0, 0>>)))

-----------------------------------------------------------------------------
(* bm_checksum_fletcher: Fletcher's checksums *)

\* uint_fast8_t sums over nibbles, base 15.
fletcher8_checksum(data, length) ==
    LET base == 15
        body(st) ==
            LET a1 == (st.sum1 + (data[st.i + 1] \div 16)) % 256
                a2 == (st.sum2 + a1) % 256
                b1 == (a1 + (data[st.i + 1] % 16)) % base
                b2 == (a2 + b1) % base
            IN  [i |-> st.i + 1, sum1 |-> b1, sum2 |-> b2]
        s == Repeat(body, [i |-> 0, sum1 |-> 0, sum2 |-> 0], length)
    IN  UFromInt(BitOr(s.sum2 * 16, s.sum1) % 256, 1)

\* blocksize_limit of fletcher16_checksum for a 16-bit uint_fast16_t.
fletcher16_blocksize_limit == 22

\* uint_fast16_t sums, base 255, the modulus taken once per block.
fletcher16_checksum(data, length) ==
    LET base == 255
        body(st) ==
            LET a1 == (st.sum1 + data[st.p + 1]) % (UINT_FAST16_MAX + 1)
            IN  [p |-> st.p + 1, sum1 |-> a1, sum2 |-> (st.sum2 + a1) % (UINT_FAST16_MAX + 1)]
        inner(p, blocksize, sum1, sum2) ==
            LET st == Repeat(body, [p |-> p, sum1 |-> sum1, sum2 |-> sum2], blocksize)
            IN  [sum1 |-> st.sum1 % base, sum2 |-> st.sum2 % base]
        RECURSIVE outer(_, _, _)
        outer(p, len, s) ==
            IF len > 0
            THEN LET blocksize == IF len > fletcher16_blocksize_limit
                                  THEN fletcher16_blocksize_limit ELSE len
                 IN  outer(p + blocksize, len - blocksize, inner(p, blocksize, s.sum1, s.sum2))
            ELSE s
        s == outer(0, length, [sum1 |-> 0, sum2 |-> 0])
    IN  UFromInt(BitOr((s.sum2 * 256) % 65536, s.sum1), 2)

\* blocksize_limit of fletcher32_checksum for a 32-bit uint_fast32_t.
fletcher32_blocksize_limit == 360

\* Mutant of fletcher32_checksum: an odd trailing byte is taken as the low byte
\* of the last word.
fletcher32_checksum_lowbyte(data, length) ==
    LET base == 65535
        body(st) ==
            LET number16 == BitOr(data[st.p + 1] * 256, data[st.p + 2])
                sum1 == (st.sum1 + number16) % base
            IN  [p |-> st.p + 2, sum1 |-> sum1, sum2 |-> (st.sum2 + sum1) % base]
        s == Repeat(body, [p |-> 0, sum1 |-> 0, sum2 |-> 0], length \div 2)
        t1 == IF length % 2 # 0 THEN (s.sum1 + data[length]) % base ELSE s.sum1
        t2 == IF length % 2 # 0 THEN (s.sum2 + t1) % base ELSE s.sum2
    IN  UFromInt(t1, 2) \o UFromInt(t2, 2)

\* uint_fast32_t sums over byte pairs, base 65535.  Within a block the sums stay
\* below 65535 * (1 + 180 + 180 * 181 / 2) < 2^31, so nothing wraps.
fletcher32_checksum(data, length) ==
    LET base == 65535
        modulus == length % 2
        body(st) ==
            LET number16 == BitOr(data[st.p + 1] * 256, data[st.p + 2])
            IN  [p |-> st.p + 2, sum1 |-> st.sum1 + number16,
                 sum2 |-> st.sum2 + st.sum1 + number16]
        inner(p, blocksize, sum1, sum2) ==
            LET st == Repeat(body, [p |-> p, sum1 |-> sum1, sum2 |-> sum2], blocksize \div 2)
            IN  [sum1 |-> st.sum1 % base, sum2 |-> st.sum2 % base]
        RECURSIVE outer(_, _, _)
        outer(p, len, s) ==
            IF len > 1
            THEN LET blocksize == IF len > fletcher32_blocksize_limit
                                  THEN fletcher32_blocksize_limit ELSE len
                 IN  outer(p + blocksize, len - blocksize, inner(p, blocksize, s.sum1, s.sum2))
            ELSE s
        s == outer(0, length - modulus, [sum1 |-> 0, sum2 |-> 0])
        t1 == IF modulus # 0 THEN (s.sum1 + data[length] * 256) % base ELSE s.sum1
        t2 == IF modulus # 0 THEN (s.sum2 + t1) % base ELSE s.sum2
    IN  UFromInt(t1, 2) \o UFromInt(t2, 2)

-----------------------------------------------------------------------------
(* bm_checksum_luhn: Luhn's mod-N checksums.  The sums are uint_fast16_t and
   wrap at UINT_FAST16_MAX + 1. *)

\* const uint_fast16_t intbase = (base == 0) ? 256 : base;
luhn_intbase(base) == IF base = 0 THEN 256 ELSE base

\* static_cast<uint8_t>((intbase - sum) % intbase), the difference taken in
\* uint_fast16_t.
luhn_result(intbase, sum) ==
    UFromInt((((intbase - sum) + (UINT_FAST16_MAX + 1)) % (UINT_FAST16_MAX + 1)) % intbase, 1)

luhn_checksum_textbook(data, length, base) ==
    LET intbase == luhn_intbase(base)
        body(st) ==
            LET addend == st.factor * data[st.i + 1]
                t == (st.sum + (addend \div intbase) + (addend % intbase))
                         % (UINT_FAST16_MAX + 1)
            IN  [i |-> st.i + 1, factor |-> IF st.factor = 2 THEN 1 ELSE 2,
                 sum |-> t % intbase]
        s == Repeat(body, [i |-> 0, factor |-> IF length % 2 = 0 THEN 1 ELSE 2,
                           sum |-> 0], length)
    IN  luhn_result(intbase, s.sum)

\* sum += (addend < intbase) ? addend : addend - (intbase-1), addend = 2 * byte
luhn_add2(intbase, sum, byte) ==
    LET addend == byte * 2
    IN  (sum + (IF addend < intbase THEN addend ELSE addend - (intbase - 1)))
            % (UINT_FAST16_MAX + 1)

\* Mutant of luhn_checksum_sum: the bytes are weighted 1, 2, 1, ... from the
\* right instead of 2, 1, 2, ...
luhn_checksum_sum_shifted(data, length, intbase, blocksize_limit) ==
    LET RECURSIVE loop(_, _, _)
        loop(e, factor, sum) ==
            IF e > 0
            THEN loop(e - 1, IF factor = 2 THEN 1 ELSE 2,
                      (IF factor = 2 THEN luhn_add2(intbase, sum, data[e])
                       ELSE sum + data[e]) % intbase)
            ELSE sum
    IN  loop(length, 1, 0)

\* The loops of luhn_checksum: the value of sum at the return statement.  end
\* walks from the last byte towards the first.
luhn_checksum_sum(data, length, intbase, blocksize_limit) ==
    LET modulus == length % 2
        body(st) ==
            [e |-> st.e - 2,
             sum |-> (luhn_add2(intbase, st.sum, data[st.e]) + data[st.e - 1])
                         % (UINT_FAST16_MAX + 1)]
        \* blocklength is even: length - modulus and blocksize_limit are
        inner(e, blocklength, sum) ==
            Repeat(body, [e |-> e, sum |-> sum], blocklength \div 2).sum % intbase
        RECURSIVE outer(_, _, _)
        outer(e, len, sum) ==
            IF len > 0
            THEN LET blocklength == IF len > blocksize_limit THEN blocksize_limit ELSE len
                 IN  outer(e - blocklength, len - blocklength, inner(e, blocklength, sum))
            ELSE sum
        s == outer(length, length - modulus, 0)
        t == luhn_add2(intbase, s, data[1])
    IN  IF modulus # 0 THEN (IF t < intbase THEN t ELSE t - intbase) ELSE s

\* blocksize_limit = ((UINT_FAST16_MAX / (2*(intbase-1))) - 1) & ~0x01 is
\* computed first, whatever the length.  With base 1 the divisor is 0 and the
\* division is undefined: the call traps, or the quotient is 0.
luhn_checksum(data, length, base, ub) ==
    LET intbase == luhn_intbase(base)
        divisor == 2 * (intbase - 1)
        quotient == IF divisor = 0 THEN 0 ELSE UINT_FAST16_MAX \div divisor
        q1 == (quotient + UINT_FAST16_MAX) % (UINT_FAST16_MAX + 1)
        blocksize_limit == q1 - (q1 % 2)
    IN  IF divisor = 0 /\ ub.div = "trap" THEN Fault
        ELSE luhn_result(intbase, luhn_checksum_sum(data, length, intbase, blocksize_limit))

\* Mutant of luhn256_checksum: a doubled byte of 256 or more is cut to 8 bits
\* instead of being reduced by 0xFF.
luhn256_checksum_cut(data, length) ==
    LET add2(sum, byte) == (sum + 2 * byte) % 256
        body(st) ==
            [e |-> st.e - 2, sum |-> (add2(st.sum, data[st.e]) + data[st.e - 1]) % 256]
        pairs == Repeat(body, [e |-> length, sum |-> 0], length \div 2)
        sum == IF length % 2 = 1 THEN add2(pairs.sum, data[pairs.e]) ELSE pairs.sum
    IN  UFromInt((256 - (sum % 256)) % 256, 1)

\* uint_fast8_t sum: every addition wraps at 8 bits.
luhn256_checksum(data, length) ==
    LET base256 == 256
        add2(sum, byte) ==
            LET addend == 2 * byte
            IN  (sum + (IF addend < base256 THEN addend ELSE addend - UINT8_MAX)) % 256
        body(st) ==
            [e |-> st.e - 2, sum |-> (add2(st.sum, data[st.e]) + data[st.e - 1]) % 256]
        pairs == Repeat(body, [e |-> length, sum |-> 0], length \div 2)
        sum == IF length % 2 = 1 THEN add2(pairs.sum, data[pairs.e]) ELSE pairs.sum
    IN  UFromInt((base256 - (sum % 256)) % 256, 1)

-----------------------------------------------------------------------------
(* The checksum functions called directly: buf is the array data points to,
   arg the remaining arguments of the call and the outcome of whatever is
   undefined in it, ret the value returned (Fault when the call traps). *)

\* Sample bytes: the small digits of the common Luhn bases and the extremes.
ByteSamples == {0, 1, 9, UINT8_MAX}

RECURSIVE SeqsUpTo(_, _)
SeqsUpTo(S, n) ==
    IF n = 0 THEN { << >> }
    ELSE LET shorter == SeqsUpTo(S, n - 1)
         IN  shorter \cup { Append(q, x) : q \in { r \in shorter : Len(r) = n - 1 }, x \in S }

\* Patterned arrays: all bytes equal, pairwise distinct bytes in both orders,
\* and arrays with a single non-zero byte.
Patterns(n) ==
    { [i \in 1..n |-> 0], [i \in 1..n |-> UINT8_MAX],
      [i \in 1..n |-> 14 * i + 3], [i \in 1..n |-> 250 - 13 * i] }
    \cup { [i \in 1..n |-> IF i = j THEN 1 ELSE 0] : j \in 1..n }
    \cup { [i \in 1..n |-> IF i = j THEN UINT8_MAX ELSE 0] : j \in 1..n }

FnInputs == SeqsUpTo(ByteSamples, ShortLen) \cup UNION { Patterns(n) : n \in 1..MaxLen }

\* The base argument of the Luhn functions: 0 stands for 256.
LuhnBases == {0, 1, 2, 3, 10, 16, UINT8_MAX}

\* The outcomes of an undefined shift, and of an undefined division.
ShiftChoices == { ub \in UBChoices : ub.div = "trap" }
DivChoices == { ub \in UBChoices : ub.shift = "wide" }
NoUB == [shift |-> "wide", div |-> "trap"]

FnInit ==
    /\ buf \in FnInputs
    /\ pre = buf
    /\ op = "input"
    /\ arg = [length |-> 0, base |-> 0, ub |-> NoUB]
    /\ ret = << >>
    /\ cfg = << >>

\* The lengths a function is called with on the array buf: none of it, or all of it.
FnLengths == {0, Len(buf)}

\* One call name(buf, length[, base]) returning r.
Call(name, length, base, ub, r) ==
    /\ op = "input"
    /\ op' = name
    /\ arg' = [length |-> length, base |-> base, ub |-> ub]
    /\ ret' = r
    /\ pre' = buf
    /\ UNCHANGED <<buf, cfg>>

Call_sum8 == \E n \in FnLengths : Call("sum8_checksum", n, 0, NoUB, sum8_checksum(buf, n))
Call_sum16 == \E n \in FnLengths : Call("sum16_checksum", n, 0, NoUB, sum16_checksum(buf, n))
Call_sum32 == \E n \in FnLengths : Call("sum32_checksum", n, 0, NoUB, sum32_checksum(buf, n))
Call_sum64 == \E n \in FnLengths : Call("sum64_checksum", n, 0, NoUB, sum64_checksum(buf, n))
Call_sum64_2 ==
    \E n \in FnLengths : \E ub \in ShiftChoices :
        Call("sum64_checksum_2", n, 0, ub, sum64_checksum_2(buf, n, ub))

Call_onesum8 == \E n \in FnLengths : Call("onesum8_checksum", n, 0, NoUB, onesum8_checksum(buf, n))
Call_onesum8_textbook ==
    \E n \in FnLengths :
        Call("onesum8_checksum_textbook", n, 0, NoUB, onesum8_checksum_textbook(buf, n))
Call_onesum16 ==
    \E n \in FnLengths : Call("onesum16_checksum", n, 0, NoUB, onesum16_checksum(buf, n))
Call_onesum16_textbook ==
    \E n \in FnLengths :
        Call("onesum16_checksum_textbook", n, 0, NoUB, onesum16_checksum_textbook(buf, n))
Call_onesum32 ==
    \E n \in FnLengths : \E ub \in ShiftChoices :
        Call("onesum32_checksum", n, 0, ub, onesum32_checksum(buf, n, ub))
Call_onesum32_textbook ==
    \E n \in FnLengths : \E ub \in ShiftChoices :
        Call("onesum32_checksum_textbook", n, 0, ub, onesum32_checksum_textbook(buf, n, ub))

Call_xor8 == \E n \in FnLengths : Call("xor8_checksum", n, 0, NoUB, xor8_checksum(buf, n))
Call_xor16 == \E n \in FnLengths : Call("xor16_checksum", n, 0, NoUB, xor16_checksum(buf, n))
Call_xor32 == \E n \in FnLengths : Call("xor32_checksum", n, 0, NoUB, xor32_checksum(buf, n))
Call_xor64 == \E n \in FnLengths : Call("xor64_checksum", n, 0, NoUB, xor64_checksum(buf, n))

Call_fletcher8 ==
    \E n \in FnLengths : Call("fletcher8_checksum", n, 0, NoUB, fletcher8_checksum(buf, n))
Call_fletcher16 ==
    \E n \in FnLengths : Call("fletcher16_checksum", n, 0, NoUB, fletcher16_checksum(buf, n))
Call_fletcher32 ==
    \E n \in FnLengths : Call("fletcher32_checksum", n, 0, NoUB, fletcher32_checksum(buf, n))

Call_luhn ==
    \E n \in FnLengths : \E base \in LuhnBases : \E ub \in DivChoices :
        Call("luhn_checksum", n, base, ub, luhn_checksum(buf, n, base, ub))
Call_luhn_textbook ==
    \E n \in FnLengths : \E base \in LuhnBases :
        Call("luhn_checksum_textbook", n, base, NoUB, luhn_checksum_textbook(buf, n, base))
Call_luhn256 ==
    \E n \in FnLengths : Call("luhn256_checksum", n, 0, NoUB, luhn256_checksum(buf, n))

FnNext ==
    \/ Call_sum8 \/ Call_sum16 \/ Call_sum32 \/ Call_sum64 \/ Call_sum64_2
    \/ Call_onesum8 \/ Call_onesum8_textbook \/ Call_onesum16 \/ Call_onesum16_textbook
    \/ Call_onesum32 \/ Call_onesum32_textbook
    \/ Call_xor8 \/ Call_xor16 \/ Call_xor32 \/ Call_xor64
    \/ Call_fletcher8 \/ Call_fletcher16 \/ Call_fletcher32
    \/ Call_luhn \/ Call_luhn_textbook \/ Call_luhn256

SpecFn == FnInit /\ [][FnNext]_vars

\* C6: for every even-length byte stream d, onesum16_checksum over d followed by
\* the two bytes of onesum16_checksum(d), most significant byte first, is 0.
C6_OnesumAppendIsZero ==
    (op = "onesum16_checksum" /\ arg.length % 2 = 0) =>
        LET d == SubSeq(buf, 1, arg.length)
        IN  onesum16_checksum(d \o <<ret[2], ret[1]>>, arg.length + 2) = UZero(2)

\* 0xFFFF + 0x0001 carries out of 16 bits: the folded sum is 1, the checksum 0xFFFE.
C6_Witness ==
    /\ op = "onesum16_checksum"
    /\ arg.length = 4
    /\ buf = <<UINT8_MAX, UINT8_MAX, 0, 1>>
    /\ ret = <<254, UINT8_MAX>>

\* The 32-bit word that starts at offset p of the n bytes of data, most
\* significant byte first, bytes from offset n on taken as zero.
C7_Word(data, p, n) == [i \in 1..4 |-> IF p + 5 - i <= n THEN data[p + 5 - i] ELSE 0]

\* One's complement addition of two 32-bit words: the carry is added back in.
C7_OnesAdd(a, b) ==
    LET t == UAdd(UResize(a, 8), UResize(b, 8))
    IN  UResize(UAdd(UResize(UResize(t, 4), 8), UShrBytes(t, 4)), 4)

RECURSIVE C7_OnesSum(_, _, _)
C7_OnesSum(data, p, n) ==
    IF p >= n THEN UZero(4)
    ELSE C7_OnesAdd(C7_Word(data, p, n), C7_OnesSum(data, p + 4, n))

\* C7: onesum32_checksum is the complement of the one's complement sum of the
\* big-endian 32-bit words of the input, the trailing 1 to 3 bytes zero-padded
\* into a final word (the k-th trailing byte at bits 24-8k .. 31-8k).
C7_Onesum32PadsTrailingBytes ==
    (op = "onesum32_checksum") => ret = UNot(C7_OnesSum(buf, 0, arg.length))

\* The k-byte word that starts at offset p of the n bytes of data, most
\* significant byte first, bytes from offset n on taken as zero.
C8_Word(data, p, n, k) == [i \in 1..k |-> IF p + k + 1 - i <= n THEN data[p + k + 1 - i] ELSE 0]

\* The sum modulo 2^(8k) of the k-byte words of data[0 .. n-1].
RECURSIVE C8_WordSum(_, _, _, _)
C8_WordSum(data, p, n, k) ==
    IF p >= n THEN UZero(k)
    ELSE UAdd(C8_Word(data, p, n, k), C8_WordSum(data, p + k, n, k))

\* C8: sumW_checksum is the sum modulo 2^W of the big-endian W-bit words of the
\* input, an incomplete trailing group zero-padded on the right; sum64_checksum
\* (either copy) returns all 64 bits of it.
C8_SumIsWordSum ==
    /\ op = "sum8_checksum"    => ret = C8_WordSum(buf, 0, arg.length, 1)
    /\ op = "sum16_checksum"   => ret = C8_WordSum(buf, 0, arg.length, 2)
    /\ op = "sum32_checksum"   => ret = C8_WordSum(buf, 0, arg.length, 4)
    /\ op = "sum64_checksum"   => ret = C8_WordSum(buf, 0, arg.length, 8)
    /\ op = "sum64_checksum_2" => ret = C8_WordSum(buf, 0, arg.length, 8)

\* The value every function is said to return for length 0.
C9_Identity(name) ==
    CASE name \in {"onesum8_checksum", "onesum8_checksum_textbook"} -> UNot(UZero(1))
      [] name \in {"onesum16_checksum", "onesum16_checksum_textbook"} -> UNot(UZero(2))
      [] name \in {"onesum32_checksum", "onesum32_checksum_textbook"} -> UNot(UZero(4))
      [] name \in {"sum8_checksum", "xor8_checksum", "fletcher8_checksum", "luhn_checksum",
                   "luhn_checksum_textbook", "luhn256_checksum"} -> UZero(1)
      [] name \in {"sum16_checksum", "xor16_checksum", "fletcher16_checksum"} -> UZero(2)
      [] name \in {"sum32_checksum", "xor32_checksum", "fletcher32_checksum"} -> UZero(4)
      [] name \in {"sum64_checksum", "sum64_checksum_2", "xor64_checksum"} -> UZero(8)

\* C9: every checksum function called with length 0 returns its identity value:
\* 2^W - 1 for the one's complement sums, 0 for all others, the Luhn functions
\* with any base included.
C9_EmptyInputGivesIdentity ==
    (op # "input" /\ arg.length = 0) => ret = C9_Identity(op)

\* The Luhn validation sum of a message whose last byte is the check byte: the
\* check byte counts once, the bytes to its left are alternately doubled and
\* counted once, starting with a doubled one, and a doubled byte counts as the
\* sum of its two digits in the base.
RECURSIVE C10_ValidationSum(_, _, _)
C10_ValidationSum(msg, e, intbase) ==
    IF e = 0 THEN 0
    ELSE LET doubled == (Len(msg) - e) % 2 = 1
             addend == IF doubled THEN 2 * msg[e] ELSE msg[e]
         IN  ((addend \div intbase) + (addend % intbase)
                  + C10_ValidationSum(msg, e - 1, intbase)) % intbase

\* Every byte of data[0 .. n-1] is a digit of the base.
C10_Digits(data, n, intbase) == \A i \in 1..n : data[i] < intbase

-----------------------------------------------------------------------------
(* ByteMessageChecksum<T>: a checksum member bound to an offset of the array
   and to a checksum function. *)

\* The functions of signature T (*)(const uint8_t*, size_t).
ChecksumFunctions ==
    { "sum8_checksum", "sum16_checksum", "sum32_checksum", "sum64_checksum",
      "sum64_checksum_2", "onesum8_checksum", "onesum8_checksum_textbook",
      "onesum16_checksum", "onesum16_checksum_textbook", "onesum32_checksum",
      "onesum32_checksum_textbook", "xor8_checksum", "xor16_checksum", "xor32_checksum",
      "xor64_checksum", "fletcher8_checksum", "fletcher16_checksum",
      "fletcher32_checksum", "luhn256_checksum" }

\* The call through the function pointer.
checksum_function(fn, data, length, ub) ==
    CASE fn = "sum8_checksum" -> sum8_checksum(data, length)
      [] fn = "sum16_checksum" -> sum16_checksum(data, length)
      [] fn = "sum32_checksum" -> sum32_checksum(data, length)
      [] fn = "sum64_checksum" -> sum64_checksum(data, length)
      [] fn = "sum64_checksum_2" -> sum64_checksum_2(data, length, ub)
      [] fn = "onesum8_checksum" -> onesum8_checksum(data, length)
      [] fn = "onesum8_checksum_textbook" -> onesum8_checksum_textbook(data, length)
      [] fn = "onesum16_checksum" -> onesum16_checksum(data, length)
      [] fn = "onesum16_checksum_textbook" -> onesum16_checksum_textbook(data, length)
      [] fn = "onesum32_checksum" -> onesum32_checksum(data, length, ub)
      [] fn = "onesum32_checksum_textbook" -> onesum32_checksum_textbook(data, length, ub)
      [] fn = "xor8_checksum" -> xor8_checksum(data, length)
      [] fn = "xor16_checksum" -> xor16_checksum(data, length)
      [] fn = "xor32_checksum" -> xor32_checksum(data, length)
      [] fn = "xor64_checksum" -> xor64_checksum(data, length)
      [] fn = "fletcher8_checksum" -> fletcher8_checksum(data, length)
      [] fn = "fletcher16_checksum" -> fletcher16_checksum(data, length)
      [] fn = "fletcher32_checksum" -> fletcher32_checksum(data, length)
      [] fn = "luhn256_checksum" -> luhn256_checksum(data, length)

\* The template argument T a function can be bound with: its return type.
ChecksumType(fn) ==
    CASE fn \in {"sum8_checksum", "onesum8_checksum", "onesum8_checksum_textbook",
                 "xor8_checksum", "fletcher8_checksum", "luhn256_checksum"} -> "uint8_t"
      [] fn \in {"sum16_checksum", "onesum16_checksum", "onesum16_checksum_textbook",
                 "xor16_checksum", "fletcher16_checksum"} -> "uint16_t"
      [] fn \in {"sum32_checksum", "onesum32_checksum", "onesum32_checksum_textbook",
                 "xor32_checksum", "fletcher32_checksum"} -> "uint32_t"
      [] fn \in {"sum64_checksum", "sum64_checksum_2", "xor64_checksum"} -> "uint64_t"

\* The functions with an undefined shift in them.
ShiftUB == {"sum64_checksum_2", "onesum32_checksum", "onesum32_checksum_textbook"}

\* Constructor: bptr{baseptr}, pos{position}, checksum_function{...}, bmf{baseptr, position}
ByteMessageChecksum(baseptr, position, checksumFunctionPtr) ==
    [ bptr |-> baseptr,
      pos |-> position,
      checksum_function |-> checksumFunctionPtr,
      T |-> ChecksumType(checksumFunctionPtr),
      bmf |-> ByteMessageField(baseptr, position) ]

\* Mutant of Checksum_calc: the checksum also covers its own storage bytes.
Checksum_calc_through(b, c, ub) ==
    checksum_function(c.checksum_function, SubSeq(b, c.bptr + 1, Len(b)),
                      c.pos + sizeof(c.T), ub)

\* Mutant of Checksum_calc: the last byte before the checksum is left out.
Checksum_calc_short(b, c, ub) ==
    checksum_function(c.checksum_function, SubSeq(b, c.bptr + 1, Len(b)),
                      IF c.pos > 0 THEN c.pos - 1 ELSE 0, ub)

\* calc(): checksum_function(bptr, pos)
Checksum_calc(b, c, ub) ==
    checksum_function(c.checksum_function, SubSeq(b, c.bptr + 1, Len(b)), c.pos, ub)

\* get(): bmf.get()
Checksum_get(b, c) == Field_get(c.T, b, c.bmf)

\* Mutant of Checksum_update: the value already stored is stored again.
Checksum_update_stale(b, c, ub) == Field_set(c.T, b, c.bmf, Checksum_get(b, c))

\* update(): bmf.set(calc()).  calc() is evaluated once and its value v handed to set().
Checksum_update(b, c, ub) ==
    CHOOSE b2 \in { Field_set(c.T, b, c.bmf, UVal(v)) : v \in {Checksum_calc(b, c, ub)} } : TRUE

\* check(): calc() == get()
Checksum_check(b, c, ub) == UVal(Checksum_calc(b, c, ub)) = Checksum_get(b, c)

\* The array the checksum member is constructed over: room for the bytes before
\* the checksum, the widest checksum, and one byte after it.
ChkBufLen == ChkMaxPos + 9

ChkBackgrounds == { [i \in 1..ChkBufLen |-> 16 * i + 1] }

\* cfg.c is the member, cfg.ub what the build makes of the undefined shifts.
ChkInit ==
    /\ buf \in ChkBackgrounds
    /\ pre = buf
    /\ \E fn \in ChecksumFunctions : \E pos \in 0..ChkMaxPos :
       \E ub \in (IF fn \in ShiftUB THEN ShiftChoices ELSE {NoUB}) :
           cfg = [c |-> ByteMessageChecksum(0, pos, fn), ub |-> ub]
    /\ op = "ctor"
    /\ arg = [offset |-> 0, value |-> 0]
    /\ ret = NoVal

ChkUpdate ==
    /\ pre' = buf
    /\ buf' = Checksum_update(buf, cfg.c, cfg.ub)
    /\ op' = "update"
    /\ ret' = NoVal
    /\ UNCHANGED <<arg, cfg>>

ChkCheck ==
    /\ pre' = buf
    /\ ret' = Checksum_check(buf, cfg.c, cfg.ub)
    /\ op' = "check"
    /\ UNCHANGED <<buf, arg, cfg>>

ChkCalc ==
    /\ pre' = buf
    /\ ret' = Checksum_calc(buf, cfg.c, cfg.ub)
    /\ op' = "calc"
    /\ UNCHANGED <<buf, arg, cfg>>

ChkGet ==
    /\ pre' = buf
    /\ ret' = Checksum_get(buf, cfg.c)
    /\ op' = "get"
    /\ UNCHANGED <<buf, arg, cfg>>

\* The offsets other members of the message are bound at: the first byte, the
\* bytes on both sides of either end of the checksum.
ChkOffsets ==
    LET c == cfg.c
    IN  {0, c.pos - 1, c.pos, c.pos + sizeof(c.T) - 1, c.pos + sizeof(c.T)}
            \cap (0..(ChkBufLen - 1))

\* set() on a ByteMessageField<uint8_t> bound at some offset of the same array.
ChkWrite ==
    \E offset \in ChkOffsets : \E value \in {UINT8_MAX} :
        /\ pre' = buf
        /\ buf' = set_uint8_t(buf, ByteMessageField(0, offset), UVal(<<value>>))
        /\ op' = "write"
        /\ arg' = [offset |-> offset, value |-> value]
        /\ ret' = NoVal
        /\ UNCHANGED cfg

ChkNext == ChkUpdate \/ ChkCheck \/ ChkCalc \/ ChkGet \/ ChkWrite

SpecChecksum == ChkInit /\ [][ChkNext]_vars

\* C4: check() returns whether calc() == get(); it is true right after update(),
\* and a step that changes no byte in [0, pos+sizeof(T)) keeps it true (so it
\* stays true across any sequence of such steps), for every bound function.
C4_CheckHoldsAfterUpdate ==
    LET c == cfg.c
        protected == 1..(c.pos + sizeof(c.T))
    IN  /\ op = "check" =>
               ret = (UVal(Checksum_calc(buf, c, cfg.ub)) = Checksum_get(buf, c))
        /\ op = "update" => Checksum_check(buf, c, cfg.ub)
        /\ (Checksum_check(pre, c, cfg.ub) /\ \A i \in protected : buf[i] = pre[i]) =>
               Checksum_check(buf, c, cfg.ub)

\* A byte behind an up-to-date 16-bit checksum over three bytes has just been
\* overwritten, and the check still passes.
C4_Witness ==
    /\ op = "write"
    /\ cfg.c.checksum_function = "onesum16_checksum"
    /\ cfg.c.pos = 3
    /\ arg.offset = 5
    /\ buf # pre
    /\ Checksum_get(buf, cfg.c) = UVal(<<222, 189>>)
    /\ Checksum_check(pre, cfg.c, cfg.ub)
    /\ Checksum_check(buf, cfg.c, cfg.ub)

\* Arrays that agree with b on [0, pos): the bytes from pos on replaced by a
\* constant, or one of them changed.
C5_Variants(b, pos) ==
    { [i \in 1..Len(b) |-> IF i > pos THEN v ELSE b[i]] : v \in {0, 1, UINT8_MAX} }
    \cup { [b EXCEPT ![j] = UINT8_MAX - b[j]] : j \in (pos + 1)..Len(b) }

\* C5: calc() returns the same value on every array that agrees with the buffer
\* on [0, pos), whatever the stored checksum bytes and the bytes after them are,
\* and leaves the buffer unchanged.
C5_CalcReadsOnlyPrefix ==
    op = "calc" =>
        /\ buf = pre
        /\ \A b2 \in C5_Variants(buf, cfg.c.pos) : Checksum_calc(b2, cfg.c, cfg.ub) = ret

\* calc() of a 32-bit sum over three bytes, after the checksum bytes and the
\* byte behind them were overwritten.
C5_Witness ==
    /\ op = "calc"
    /\ cfg.c.checksum_function = "sum32_checksum"
    /\ cfg.c.pos = 3
    /\ buf[4] = UINT8_MAX
    /\ buf[8] = UINT8_MAX
    /\ ret = <<0, 49, 33, 17>>

-----------------------------------------------------------------------------
(* ByteMessageFieldBlob: the subscript operators *)

\* The members the constructor adds for the subscript operators:
\* blackhole{0}, blackhole_const{0}.
Blob_blackholes == [blackhole |-> 0, blackhole_const |-> 0]

\* Mutant of operator[]: the out-of-bounds branch does not reset blackhole.
operator_subscript_noreset(blob, index) ==
    IF index < blob.size
    THEN [ref |-> [in |-> "msgptr", at |-> blob.msgptr + index], blob |-> blob]
    ELSE [ref |-> [in |-> "blackhole", at |-> 0], blob |-> blob]

\* uint8_t& operator[](index): the reference returned (into the array, or to
\* the member blackhole) and the object's members afterwards.
operator_subscript(blob, index) ==
    IF index < blob.size
    THEN [ref |-> [in |-> "msgptr", at |-> blob.msgptr + index], blob |-> blob]
    ELSE [ref |-> [in |-> "blackhole", at |-> 0],
          blob |-> [blob EXCEPT !.blackhole = 0]]

\* const uint8_t& operator[](index) const
operator_subscript_const(blob, index) ==
    IF index < blob.size
    THEN [ref |-> [in |-> "msgptr", at |-> blob.msgptr + index], blob |-> blob]
    ELSE [ref |-> [in |-> "blackhole_const", at |-> 0], blob |-> blob]

\* The byte a reference designates.
Ref_load(b, blob, ref) ==
    CASE ref.in = "msgptr"          -> b[ref.at + 1]
      [] ref.in = "blackhole"       -> blob.blackhole
      [] ref.in = "blackhole_const" -> blob.blackhole_const

\* A store through a reference: the array and the members afterwards.
Ref_store(b, blob, ref, value) ==
    CASE ref.in = "msgptr"    -> [buf |-> [b EXCEPT ![ref.at + 1] = value], blob |-> blob]
      [] ref.in = "blackhole" -> [buf |-> b, blob |-> [blob EXCEPT !.blackhole = value]]

-----------------------------------------------------------------------------
(* Specification SpecSubscript: subscript reads and writes on one blob *)

\* Indices tried: every index inside the blob and some beyond its end.
SubIndices == 0..(MaxBlobSize + 2)

SubInit ==
    \E b \in BlobBackgrounds : \E size \in 0..MaxBlobSize : \E pos \in 0..(BlobBufLen - size) :
        LET blob == ByteMessageFieldBlob(b, 0, pos, size)
        IN  /\ buf = blob.buf
            /\ pre = b
            /\ cfg = [size |-> blob.size, msgptr |-> blob.msgptr,
                      blackhole |-> Blob_blackholes.blackhole,
                      blackhole_const |-> Blob_blackholes.blackhole_const]
            /\ op = "ctor"
            /\ arg = [index |-> 0, value |-> 0]
            /\ ret = 0

\* value = bmfb[index]
SubRead ==
    \E index \in SubIndices :
        LET r == operator_subscript(cfg, index)
        IN  /\ ret' = Ref_load(buf, r.blob, r.ref)
            /\ cfg' = r.blob
            /\ pre' = buf
            /\ op' = "read"
            /\ arg' = [index |-> index, value |-> 0]
            /\ UNCHANGED buf

\* bmfb[index] = value
SubWrite ==
    \E index \in SubIndices : \E value \in {0, 123, UINT8_MAX} :
        LET r == operator_subscript(cfg, index)
            s == Ref_store(buf, r.blob, r.ref, value)
        IN  /\ buf' = s.buf
            /\ cfg' = s.blob
            /\ pre' = buf
            /\ op' = "write"
            /\ arg' = [index |-> index, value |-> value]
            /\ ret' = value

\* value = bmfb[index] on a const instance
SubReadConst ==
    \E index \in SubIndices :
        LET r == operator_subscript_const(cfg, index)
        IN  /\ ret' = Ref_load(buf, r.blob, r.ref)
            /\ cfg' = r.blob
            /\ pre' = buf
            /\ op' = "read_const"
            /\ arg' = [index |-> index, value |-> 0]
            /\ UNCHANGED buf

SubNext == SubRead \/ SubWrite \/ SubReadConst

SpecSubscript == SubInit /\ [][SubNext]_vars

\* C11: with index < size a subscript read returns the blob's byte at index
\* and a subscript write stores into exactly that byte; with index >= size a
\* read (const or not) returns 0 and a write changes no byte of the array;
\* and in every state reached by such reads and writes the next out-of-bounds
\* read returns 0.
C11_SubscriptIsBoundsChecked ==
    /\ op \in {"read", "read_const"} =>
          /\ buf = pre
          /\ ret = IF arg.index < cfg.size THEN pre[cfg.msgptr + arg.index + 1] ELSE 0
    /\ op = "write" =>
          buf = IF arg.index < cfg.size
                THEN [pre EXCEPT ![cfg.msgptr + arg.index + 1] = arg.value]
                ELSE pre
    /\ \A index \in SubIndices : index >= cfg.size =>
          /\ Ref_load(buf, operator_subscript(cfg, index).blob,
                      operator_subscript(cfg, index).ref) = 0
          /\ Ref_load(buf, operator_subscript_const(cfg, index).blob,
                      operator_subscript_const(cfg, index).ref) = 0

\* An out-of-bounds write of 123 has just happened on a blob over non-zero
\* bytes: the array is as before and the member blackhole holds the 123.
C11_Witness ==
    /\ op = "write"
    /\ arg.index >= cfg.size
    /\ arg.value = 123
    /\ cfg.size = 2
    /\ cfg.blackhole = 123
    /\ buf = pre
    /\ \E i \in 1..BlobBufLen : buf[i] = UINT8_MAX

-----------------------------------------------------------------------------
(* ByteMessage<TYPE, SIZE> and the classes derived from it *)

\* Mutant of ByteMessage_default: the type byte is not written.
ByteMessage_default_untyped(TYPE, SIZE) == [i \in 1..SIZE |-> 0]

\* ByteMessage(): msgarr{0}; msgarr[0] = TYPE.
ByteMessage_default(TYPE, SIZE) ==
    [i \in 1..SIZE |-> IF i = 1 THEN TYPE ELSE 0]

\* ByteMessage(const ByteMessage& bm): memcpy(msgarr, bm.msgarr, SIZE) into
\* the new object's array b.
ByteMessage_copy(b, bm, SIZE) == memcpy(b, 0, bm, SIZE)

\* operator=(const ByteMessage&): return *this.
ByteMessage_assign(b, bm) == b

\* Mutant of populate: the type byte is not looked at.
populate_anytype(b, TYPE, SIZE, raw_message, message_size) ==
    IF SIZE # message_size
    THEN [buf |-> b, ret |-> FALSE]
    ELSE [buf |-> memcpy(b, 0, raw_message, SIZE), ret |-> TRUE]

\* populate(raw_message, message_size): the array afterwards and the value
\* returned.  *raw_message is read only when the sizes are equal.
populate(b, TYPE, SIZE, raw_message, message_size) ==
    IF (SIZE # message_size) \/ (raw_message[1] # TYPE)
    THEN [buf |-> b, ret |-> FALSE]
    ELSE [buf |-> memcpy(b, 0, raw_message, SIZE), ret |-> TRUE]

\* A derived class: its template arguments and its data members in the order
\* of declaration, each bound to msgarr at pos and size bytes long.
Member(kind, T, pos, size) == [kind |-> kind, T |-> T, pos |-> pos, size |-> size]

\* The unit test's layout in small: fields and a trailing checksum, every
\* byte after the type byte belongs to a member.
FieldsMessage ==
    [TYPE |-> 1, SIZE |-> 5,
     members |-> << Member("field", "uint16_t", 1, 2),
                    Member("field", "uint8_t", 3, 1),
                    Member("checksum", "uint8_t", 4, 1) >>]

\* A message with a binary blob.
BlobMessage ==
    [TYPE |-> 10, SIZE |-> 5,
     members |-> << Member("field", "uint8_t", 1, 1),
                    Member("blob", "", 2, 3) >>]

\* A message with a ByteMessageField<bool>.
BoolMessage ==
    [TYPE |-> 21, SIZE |-> 4,
     members |-> << Member("bool", "bool", 1, 1),
                    Member("field", "uint16_t", 2, 2) >>]

\* A message whose members leave byte 2 unused.
GapMessage ==
    [TYPE |-> UINT8_MAX, SIZE |-> 4,
     members |-> << Member("field", "uint8_t", 1, 1),
                    Member("field", "uint8_t", 3, 1) >>]

MessageClasses == {FieldsMessage, BlobMessage, BoolMessage, GapMessage}

\* ByteMessageField<T>::operator=(bmf) between two objects: memcpy(msgptr,
\* bmf.msgptr, sizeof(T)); src holds the bytes bmf.msgptr points to.
Field_assign(b, msgptr, T, src) == memcpy(b, msgptr, src, sizeof(T))

\* ByteMessageField<bool>::operator=(bmf): *msgptr = *(bmf.msgptr).
Bool_assign(b, msgptr, src) == [b EXCEPT ![msgptr + 1] = src[1]]

\* ByteMessageFieldBlob::operator=(bmfb) between two objects; src holds the
\* bytes bmfb.msgptr points to and src_size is bmfb.size.
Blob_assign(b, msgptr, size, src, src_size) ==
    LET length == IF size > src_size THEN src_size ELSE size
    IN  zerofill(memcpy(b, msgptr, src, length), msgptr, size, length)

\* Mutant of the checksum's operator=: the stored checksum is not copied.
Checksum_assign_nothing(b, pos, T, src) == b

\* ByteMessageChecksum<T>::operator=(bmcs): bmf = bmcs.bmf.
Checksum_assign(b, pos, T, src) == Field_assign(b, pos, T, src)

\* The bytes of member m in the array bm.
MemberBytes(bm, m) == SubSeq(bm, m.pos + 1, m.pos + m.size)

\* What the constructor of member m, run by its default member initializer
\* {msgarr, pos ...}, does to the array.
Member_construct(b, m) ==
    CASE m.kind = "field"    -> b
      [] m.kind = "checksum" -> b
      [] m.kind = "bool"     -> [b EXCEPT ![m.pos + 1] = 0]
      [] m.kind = "blob"     -> ByteMessageFieldBlob(b, 0, m.pos, m.size).buf

\* What the assignment of member m from the same member of the message with
\* array bm does to the array.
Member_assign(b, m, bm) ==
    CASE m.kind = "field"    -> Field_assign(b, m.pos, m.T, MemberBytes(bm, m))
      [] m.kind = "checksum" -> Checksum_assign(b, m.pos, m.T, MemberBytes(bm, m))
      [] m.kind = "bool"     -> Bool_assign(b, m.pos, MemberBytes(bm, m))
      [] m.kind = "blob"     -> Blob_assign(b, m.pos, m.size, MemberBytes(bm, m), m.size)

RECURSIVE Members_construct(_, _)
\* The members' constructors, in the order of declaration.
Members_construct(b, members) ==
    IF members = << >> THEN b
    ELSE Members_construct(Member_construct(b, Head(members)), Tail(members))

RECURSIVE Members_assign(_, _, _)
\* The members' assignment operators, in the order of declaration.
Members_assign(b, members, bm) ==
    IF members = << >> THEN b
    ELSE Members_assign(Member_assign(b, Head(members), bm), Tail(members), bm)

\* Derived() = default: the base class constructor, then the members.
Derived_default(cls) ==
    Members_construct(ByteMessage_default(cls.TYPE, cls.SIZE), cls.members)

\* Derived(const Derived& src) : ByteMessage{src} {}: the base class copy
\* constructor, then the members' default member initializers.  The new
\* array starts indeterminate and is overwritten as a whole by the base.
Derived_copy(cls, src) ==
    Members_construct(ByteMessage_copy([i \in 1..cls.SIZE |-> 0], src, cls.SIZE),
                      cls.members)

\* Derived& operator=(const Derived&) = default: the base class assignment,
\* then the members' assignments; self-assignment changes nothing.
Derived_assign(cls, b, src) ==
    Members_assign(ByteMessage_assign(b, src), cls.members, src)

-----------------------------------------------------------------------------
(* Specification SpecMessage: one message object of a derived class *)

\* Arrays a caller passes to populate(): one byte longer than the message,
\* with the right or a wrong type byte.
RawMessages(cls) ==
    { [i \in 1..(cls.SIZE + 1) |-> IF i = 1 THEN t ELSE (16 * i + k) % 256] :
        t \in {cls.TYPE, (cls.TYPE + 1) % 256}, k \in {1, 2, 239} }

\* Arrays of other messages of the same class.
Messages(cls) ==
    { SubSeq(raw, 1, cls.SIZE) : raw \in { r \in RawMessages(cls) : r[1] = cls.TYPE } }
    \cup {ByteMessage_default(cls.TYPE, cls.SIZE)}

MsgInit ==
    \E cls \in MessageClasses :
        /\ cfg = cls
        /\ buf = Derived_default(cls)
        /\ pre = buf
        /\ op = "ctor"
        /\ arg = [raw |-> << >>, n |-> 0]
        /\ ret = FALSE

\* msg.populate(raw, n)
MsgPopulate ==
    \E raw \in RawMessages(cfg) : \E n \in {0, cfg.SIZE - 1, cfg.SIZE, cfg.SIZE + 1} :
        LET r == populate(buf, cfg.TYPE, cfg.SIZE, raw, n)
        IN  /\ buf' = r.buf
            /\ ret' = r.ret
            /\ pre' = buf
            /\ op' = "populate"
            /\ arg' = [raw |-> raw, n |-> n]
            /\ UNCHANGED cfg

\* Derived copy{msg}: the model goes on with the copy, pre is the source.
MsgCopy ==
    /\ buf' = Derived_copy(cfg, buf)
    /\ pre' = buf
    /\ op' = "copy"
    /\ arg' = [raw |-> buf, n |-> cfg.SIZE]
    /\ ret' = FALSE
    /\ UNCHANGED cfg

\* msg = src, src another object of the same class
MsgAssign ==
    \E src \in Messages(cfg) :
        /\ buf' = Derived_assign(cfg, buf, src)
        /\ pre' = buf
        /\ op' = "assign"
        /\ arg' = [raw |-> src, n |-> cfg.SIZE]
        /\ ret' = FALSE
        /\ UNCHANGED cfg

MsgNext == MsgPopulate \/ MsgCopy \/ MsgAssign

SpecMessage == MsgInit /\ [][MsgNext]_vars

\* C12: populate(raw, n) returns true exactly when n = SIZE and raw[0] = TYPE;
\* then the array equals raw[0..SIZE), otherwise the array is unchanged.
C12_PopulateChecksSizeAndType ==
    op = "populate" =>
        /\ ret = (arg.n = cfg.SIZE /\ arg.raw[1] = cfg.TYPE)
        /\ ret => buf = SubSeq(arg.raw, 1, cfg.SIZE)
        /\ ~ret => buf = pre

\* populate() has accepted an array that differs from the message it replaces.
C12_Witness ==
    /\ op = "populate"
    /\ ret
    /\ buf # pre
    /\ buf[2] = 33

\* populate() has refused an array of the right size with a wrong type byte.
C12_WitnessRefused ==
    /\ op = "populate"
    /\ ~ret
    /\ arg.n = cfg.SIZE
    /\ arg.raw[1] # cfg.TYPE
    /\ buf # ByteMessage_default(cfg.TYPE, cfg.SIZE)


\* C13: a copy-constructed message has an array equal to the source's, byte
\* for byte, whatever members the class has.
C13_CopyEqualsSource ==
    op = "copy" => buf = pre


\* The offsets of the array that belong to some member of the class.
C14_Covered(cls) ==
    { o \in 0..(cls.SIZE - 1) :
        \E i \in 1..Len(cls.members) :
            cls.members[i].pos <= o /\ o < cls.members[i].pos + cls.members[i].size }

\* C14: after dst = src between two messages of a class whose members cover
\* every offset from 1 to SIZE-1, dst's array equals src's.  The base class
\* assignment copies nothing: a byte outside every member keeps its value.
C14_AssignCopiesMemberwise ==
    op = "assign" =>
        /\ ByteMessage_assign(pre, arg.raw) = pre
        /\ \A o \in 0..(cfg.SIZE - 1) :
              buf[o + 1] = IF o \in C14_Covered(cfg) THEN arg.raw[o + 1] ELSE pre[o + 1]
        /\ (1..(cfg.SIZE - 1)) \subseteq C14_Covered(cfg) => buf = arg.raw

\* A message of fields and a checksum has been assigned from a message that
\* differs from it in the checksum byte and elsewhere.
C14_Witness ==
    /\ op = "assign"
    /\ cfg = FieldsMessage
    /\ (1..(cfg.SIZE - 1)) \subseteq C14_Covered(cfg)
    /\ buf = arg.raw
    /\ pre[2] # buf[2]
    /\ pre[5] # buf[5]

\* A message with a blob and one with a bool field have been assigned.
C14_WitnessBlob ==
    /\ op = "assign"
    /\ cfg = BlobMessage
    /\ buf = arg.raw
    /\ \A i \in 2..cfg.SIZE : pre[i] # buf[i] /\ buf[i] # 0

-----------------------------------------------------------------------------
(* ByteMessageField<float> and the Point3D example *)

\* A float is carried as its IEEE-754 single precision bit pattern, a 32-bit
\* unsigned number.  netconv's htonf/ntohf write and read that pattern in
\* network byte order.
htonf(value, b, ptr) == htonl(value, b, ptr)
ntohf(b, ptr) == ntohl(b, ptr)

\* Mutant of get: the bytes are read in the order of a little-endian host.
get_float_host(b, msgptr) == [i \in 1..4 |-> b[msgptr + i]]

\* ByteMessageField<float>::set and get
set_float(b, msgptr, value) == htonf(value, b, msgptr)
get_float(b, msgptr) == ntohf(b, msgptr)

\* class Point3D : public ByteMessage<Point3D_TYPE, Point3D_SIZE>
Point3D ==
    [TYPE |-> 21, SIZE |-> 14,
     members |-> << Member("field", "float", 1, 4),
                    Member("field", "float", 5, 4),
                    Member("field", "float", 9, 4),
                    Member("checksum", "uint8_t", 13, 1) >>]

\* The offsets x, y and z are bound to.
Point3D_fields == [x |-> 1, y |-> 5, z |-> 9]

\* checksum{msgarr, 13, &luhn256_checksum}
Point3D_checksum == ByteMessageChecksum(0, 13, "luhn256_checksum")

\* Bit patterns set by the sender: 11.1f, 22.2f, 33.3f and a NaN.
FloatPatterns ==
    { <<154, 153, 49, 65>>, <<154, 153, 177, 65>>, <<51, 51, 5, 66>>,
      <<UINT8_MAX, UINT8_MAX, UINT8_MAX, UINT8_MAX>> }

-----------------------------------------------------------------------------
(* Specification SpecPoint3D: p1 is filled and sent, p2 receives it.        *)
(* buf holds the arrays of p1 and p2 and the bytes in transit; op is the    *)
(* step last taken, pre the field it was about, arg the patterns last set.  *)

P3Init ==
    /\ buf = [p1 |-> Derived_default(Point3D),
              data_received |-> [i \in 1..Point3D.SIZE |-> UINT8_MAX],
              p2 |-> Derived_default(Point3D)]
    /\ cfg = [cls |-> Point3D, checksum |-> Point3D_checksum, ub |-> NoUB]
    /\ arg = [f \in {"x", "y", "z"} |-> get_float(buf.p1, Point3D_fields[f])]
    /\ op = "p1"
    /\ pre = ""
    /\ ret = FALSE

\* p1.x.set(v), p1.y.set(v), p1.z.set(v), in any order and any number of times
P3Set ==
    /\ op = "p1"
    /\ \E f \in {"x", "y", "z"} : \E value \in FloatPatterns :
          /\ buf' = [buf EXCEPT !.p1 = set_float(@, Point3D_fields[f], value)]
          /\ arg' = [arg EXCEPT ![f] = value]
          /\ pre' = f
    /\ UNCHANGED <<op, ret, cfg>>

\* p1.checksum.update()
P3Update ==
    /\ op = "p1"
    /\ buf' = [buf EXCEPT !.p1 = Checksum_update(@, cfg.checksum, cfg.ub)]
    /\ op' = "update"
    /\ pre' = ""
    /\ UNCHANGED <<arg, ret, cfg>>

\* memcpy(data_received, p1.get_ptr(), p1.size)
P3Transfer ==
    /\ op = "update"
    /\ buf' = [buf EXCEPT !.data_received = memcpy(@, 0, buf.p1, cfg.cls.SIZE)]
    /\ op' = "transfer"
    /\ UNCHANGED <<pre, arg, ret, cfg>>

\* populate_ok = p2.populate(data_received, p1.size)
P3Populate ==
    /\ op = "transfer"
    /\ LET r == populate(buf.p2, cfg.cls.TYPE, cfg.cls.SIZE, buf.data_received, cfg.cls.SIZE)
       IN  /\ buf' = [buf EXCEPT !.p2 = r.buf]
           /\ ret' = r.ret
    /\ op' = "populate"
    /\ UNCHANGED <<pre, arg, cfg>>

\* checksum_ok = p2.checksum.check()
P3Check ==
    /\ op = "populate"
    /\ ret' = Checksum_check(buf.p2, cfg.checksum, cfg.ub)
    /\ op' = "check"
    /\ UNCHANGED <<buf, pre, arg, cfg>>

\* p2.x.get(), p2.y.get(), p2.z.get()
P3Get ==
    /\ op \in {"check", "get"}
    /\ \E f \in {"x", "y", "z"} :
          /\ ret' = get_float(buf.p2, Point3D_fields[f])
          /\ pre' = f
    /\ op' = "get"
    /\ UNCHANGED <<buf, arg, cfg>>

P3Next == P3Set \/ P3Update \/ P3Transfer \/ P3Populate \/ P3Check \/ P3Get

SpecPoint3D == P3Init /\ [][P3Next]_vars

\* C15: once the sender has set x, y and z and updated the checksum, the
\* receiver's populate() of the sender's 14 bytes returns true, its
\* checksum.check() returns true, and each get() on the receiver's fields
\* returns the bit pattern the sender set last.
C15_TransferRoundTrip ==
    /\ op = "populate" => ret = TRUE /\ buf.p2 = buf.p1
    /\ op = "check" => ret = TRUE
    /\ op = "get" => ret = arg[pre]

\* The receiver reads 22.2f from y after a transfer of (11.1f, 22.2f, 33.3f)
\* whose checksum byte is not zero.
C15_Witness ==
    /\ op = "get"
    /\ pre = "y"
    /\ ret = <<154, 153, 177, 65>>
    /\ arg = [x |-> <<154, 153, 49, 65>>, y |-> <<154, 153, 177, 65>>, z |-> <<51, 51, 5, 66>>]
    /\ buf.p2[1] = 21
    /\ buf.p2[14] # 0
    /\ buf.p2 = buf.p1

-----------------------------------------------------------------------------
(* ByteMessageFieldBlob::operator= *)

\* Mutant of operator=: the rest of the receiving blob is not zero-filled.
Blob_operator_assign_nofill(b, blobs, this, bmfb) ==
    IF this = bmfb THEN b
    ELSE LET length == IF blobs[this].size > blobs[bmfb].size
                       THEN blobs[bmfb].size ELSE blobs[this].size
         IN  memcpy(b, blobs[this].msgptr,
                    SubSeq(b, blobs[bmfb].msgptr + 1, blobs[bmfb].msgptr + blobs[bmfb].size),
                    length)

\* operator=(bmfb) on the object this; blobs gives the members of the objects
\* by address, b is the memory both point into.  if (this == &bmfb) return.
Blob_operator_assign(b, blobs, this, bmfb) ==
    IF this = bmfb THEN b
    ELSE Blob_assign(b, blobs[this].msgptr, blobs[this].size,
                     SubSeq(b, blobs[bmfb].msgptr + 1, blobs[bmfb].msgptr + blobs[bmfb].size),
                     blobs[bmfb].size)

-----------------------------------------------------------------------------
(* Specification SpecBlobAssign: two blobs over separate ranges of memory   *)
(* (two backend arrays, or two ranges of one array), as memcpy requires.    *)
(* arg holds the two objects of the last call and the sizes before it.      *)

BlobNames == {"bmfb1", "bmfb2"}

BlobAssignInit ==
    \E b \in BlobBackgrounds :
    \E size1 \in 0..MaxBlobSize : \E size2 \in 0..MaxBlobSize :
    \E first \in BlobNames :
        /\ size1 + size2 <= BlobBufLen
        /\ LET pos1 == IF first = "bmfb1" THEN 0 ELSE size2
               pos2 == IF first = "bmfb1" THEN size1 ELSE 0
               blob1 == ByteMessageFieldBlob(b, 0, pos1, size1)
               blob2 == ByteMessageFieldBlob(blob1.buf, 0, pos2, size2)
           IN  /\ buf = blob2.buf
               /\ cfg = [bmfb1 |-> [size |-> blob1.size, msgptr |-> blob1.msgptr],
                         bmfb2 |-> [size |-> blob2.size, msgptr |-> blob2.msgptr]]
        /\ pre = b
        /\ op = "ctor"
        /\ arg = [this |-> "bmfb1", bmfb |-> "bmfb1", size |-> [n \in BlobNames |-> cfg[n].size]]
        /\ ret = 0

\* bmfb.set(data, length) on either blob
BlobAssignSet ==
    \E this \in BlobNames : \E data \in BlobSources : \E length \in {ShortLen, SrcLen} :
        /\ buf' = Blob_set(buf, cfg[this].msgptr, cfg[this].size, data, length).buf
        /\ pre' = buf
        /\ op' = "set"
        /\ arg' = [this |-> this, bmfb |-> this, size |-> [n \in BlobNames |-> cfg[n].size]]
        /\ UNCHANGED <<ret, cfg>>

\* bmfb.set(123) on either blob
BlobAssignSetValue ==
    \E this \in BlobNames :
        /\ buf' = Blob_set_value(buf, cfg[this].msgptr, cfg[this].size, 123).buf
        /\ pre' = buf
        /\ op' = "set_value"
        /\ arg' = [this |-> this, bmfb |-> this, size |-> [n \in BlobNames |-> cfg[n].size]]
        /\ UNCHANGED <<ret, cfg>>

\* this = bmfb, for any two objects, the same one included
BlobAssign ==
    \E this \in BlobNames : \E bmfb \in BlobNames :
        /\ buf' = Blob_operator_assign(buf, cfg, this, bmfb)
        /\ pre' = buf
        /\ op' = "assign"
        /\ arg' = [this |-> this, bmfb |-> bmfb, size |-> [n \in BlobNames |-> cfg[n].size]]
        /\ UNCHANGED <<ret, cfg>>

BlobAssignNext == BlobAssignSet \/ BlobAssignSetValue \/ BlobAssign

SpecBlobAssign == BlobAssignInit /\ [][BlobAssignNext]_vars

\* The bytes of the blob named n in memory b.
C16_Region(b, n) == SubSeq(b, cfg[n].msgptr + 1, cfg[n].msgptr + cfg[n].size)

\* C16: dst = src between distinct blobs copies the first min(src.size,
\* dst.size) bytes of src's region to dst's region, zero-fills dst's bytes
\* from min on, truncates when dst is smaller, and leaves src's region, every
\* other byte and both sizes unchanged; self-assignment changes nothing.
C16_BlobAssignCopiesAndPads ==
    op = "assign" =>
        LET dst == arg.this
            src == arg.bmfb
            min == C3_Min(arg.size[src], arg.size[dst])
        IN  /\ \A n \in BlobNames : cfg[n].size = arg.size[n]
            /\ IF dst = src THEN buf = pre
               ELSE /\ \A i \in 1..cfg[dst].size :
                          C16_Region(buf, dst)[i] =
                              IF i <= min THEN C16_Region(pre, src)[i] ELSE 0
                    /\ C16_Region(buf, src) = C16_Region(pre, src)
                    /\ \A i \in 1..Len(buf) :
                          (i <= cfg[dst].msgptr \/ i > cfg[dst].msgptr + cfg[dst].size)
                              => buf[i] = pre[i]

\* A blob of 4 non-zero bytes has been assigned from a blob of 2 non-zero
\* bytes: two bytes copied, two bytes zeroed.
C16_Witness ==
    /\ op = "assign"
    /\ arg.this # arg.bmfb
    /\ cfg[arg.this].size = 4
    /\ cfg[arg.bmfb].size = 2
    /\ \A i \in 1..4 : C16_Region(pre, arg.this)[i] # 0
    /\ \A i \in 1..2 : C16_Region(pre, arg.bmfb)[i] # 0
    /\ C16_Region(buf, arg.this) = C16_Region(pre, arg.bmfb) \o <<0, 0>>

\* A blob of 2 bytes has been assigned from a blob of 4 distinct non-zero bytes.
C16_WitnessTruncated ==
    /\ op = "assign"
    /\ arg.this # arg.bmfb
    /\ cfg[arg.this].size = 2
    /\ cfg[arg.bmfb].size = 4
    /\ C16_Region(pre, arg.bmfb) = <<17, 18, 19, 20>>
    /\ C16_Region(buf, arg.this) = <<17, 18>>
    /\ C16_Region(pre, arg.this) # <<17, 18>>

-----------------------------------------------------------------------------
(* Specification SpecEquiv: the optimized checksum functions next to their  *)
(* textbook versions, on inputs that reach across the block limits.         *)
(* buf is the input array, arg the length and base of the last call and the *)
(* outcome of undefined operations on the build that made it, ret the two   *)
(* values returned.                                                         *)

\* Number of block limits the lengths reach across.
EquivBlocks == 2

\* The block limits of the optimized one's complement sums.
onesum8_blocklength_limit == 256
onesum16_blocklength_limit == 2 * 254
onesum32_blocklength_limit == 4 * 254

\* Lengths next to every multiple of a block limit, and the shortest ones.
EquivLengths(limit) ==
    (0..5) \cup UNION { ((k * limit - 3)..(k * limit + 3)) : k \in 1..EquivBlocks }

\* Input arrays: all bytes 0xFF, 0xFE followed by 0xFF, a ramp, and zeros
\* with a few ones.
EquivInputs ==
    LET n == EquivBlocks * onesum32_blocklength_limit + 3
    IN  { [i \in 1..n |-> UINT8_MAX],
          [i \in 1..n |-> IF i = 1 THEN UINT8_MAX - 1 ELSE UINT8_MAX],
          [i \in 1..n |-> (7 * i + 3) % 256],
          [i \in 1..n |-> IF i % 127 \in {0, 1, 2} THEN 1 ELSE 0] }

EquivInit ==
    /\ buf \in EquivInputs
    /\ cfg = << >>
    /\ pre = buf
    /\ op = "input"
    /\ arg = [length |-> 0, base |-> 0, ub |-> NoUB]
    /\ ret = [fast |-> << >>, textbook |-> << >>]

\* One call of the optimized function and one of its textbook version.
EquivCall(name, length, base, ub, fast, textbook) ==
    /\ op = "input"
    /\ op' = name
    /\ arg' = [length |-> length, base |-> base, ub |-> ub]
    /\ ret' = [fast |-> fast, textbook |-> textbook]
    /\ UNCHANGED <<buf, pre, cfg>>

EquivOnesum8 ==
    \E length \in EquivLengths(onesum8_blocklength_limit) :
        EquivCall("onesum8_checksum", length, 0, NoUB,
                  onesum8_checksum(buf, length), onesum8_checksum_textbook(buf, length))

EquivOnesum16 ==
    \E length \in EquivLengths(onesum16_blocklength_limit) :
        EquivCall("onesum16_checksum", length, 0, NoUB,
                  onesum16_checksum(buf, length), onesum16_checksum_textbook(buf, length))

EquivOnesum32 ==
    \E length \in EquivLengths(onesum32_blocklength_limit) : \E ub \in ShiftChoices :
        EquivCall("onesum32_checksum", length, 0, ub,
                  onesum32_checksum(buf, length, ub),
                  onesum32_checksum_textbook(buf, length, ub))

\* luhn_checksum and luhn_checksum_textbook, on the first bytes of the array
EquivLuhn ==
    \E length \in 0..ShortLen : \E base \in LuhnBases : \E ub \in DivChoices :
        EquivCall("luhn_checksum", length, base, ub,
                  luhn_checksum(buf, length, base, ub),
                  luhn_checksum_textbook(buf, length, base))

\* The reference definition of Fletcher's checksum: both sums reduced modulo
\* base after every unit; units gives the input units in order.
C20_Sums(units, base) ==
    LET body(st) ==
            LET sum1 == (st.sum1 + units[st.i + 1]) % base
            IN  [i |-> st.i + 1, sum1 |-> sum1, sum2 |-> (st.sum2 + sum1) % base]
    IN  Repeat(body, [i |-> 0, sum1 |-> 0, sum2 |-> 0], Len(units))

\* The nibbles of the first length bytes, the high nibble of a byte first.
C20_Nibbles(data, length) ==
    [j \in 1..(2 * length) |->
        IF j % 2 = 1 THEN data[(j + 1) \div 2] \div 16 ELSE data[j \div 2] % 16]

\* The big-endian 16-bit words of the first length bytes, a trailing byte
\* being the high byte of a last word.
C20_Words(data, length) ==
    [j \in 1..((length + 1) \div 2) |->
        data[2 * j - 1] * 256 + (IF 2 * j <= length THEN data[2 * j] ELSE 0)]

C20_Fletcher8(data, length) ==
    LET s == C20_Sums(C20_Nibbles(data, length), 15)
    IN  <<s.sum2 * 16 + s.sum1>>

C20_Fletcher16(data, length) ==
    LET s == C20_Sums(SubSeq(data, 1, length), UINT8_MAX)
    IN  <<s.sum1, s.sum2>>

C20_Fletcher32(data, length) ==
    LET s == C20_Sums(C20_Words(data, length), UINT16_MAX)
    IN  UFromInt(s.sum1, 2) \o UFromInt(s.sum2, 2)

\* fletcher8_checksum next to the reference definition
EquivFletcher8 ==
    \E length \in EquivLengths(2 * ShortLen) :
        EquivCall("fletcher8_checksum", length, 0, NoUB,
                  fletcher8_checksum(buf, length), C20_Fletcher8(buf, length))

EquivFletcher16 ==
    \E length \in EquivLengths(fletcher16_blocksize_limit) :
        EquivCall("fletcher16_checksum", length, 0, NoUB,
                  fletcher16_checksum(buf, length), C20_Fletcher16(buf, length))

EquivFletcher32 ==
    \E length \in EquivLengths(fletcher32_blocksize_limit) :
        EquivCall("fletcher32_checksum", length, 0, NoUB,
                  fletcher32_checksum(buf, length), C20_Fletcher32(buf, length))

\* The block limit luhn_checksum computes for base 256.
luhn_blocksize_limit_256 == 126

\* luhn256_checksum next to luhn_checksum and luhn_checksum_textbook with
\* base 0, which stands for 256
EquivLuhn256 ==
    \E length \in EquivLengths(luhn_blocksize_limit_256) :
        /\ op = "input"
        /\ op' = "luhn256_checksum"
        /\ arg' = [length |-> length, base |-> 0, ub |-> NoUB]
        /\ ret' = [fast |-> luhn256_checksum(buf, length),
                   general |-> luhn_checksum(buf, length, 0, NoUB),
                   textbook |-> luhn_checksum_textbook(buf, length, 0)]
        /\ UNCHANGED <<buf, pre, cfg>>

EquivNext ==
    \/ EquivOnesum8 \/ EquivOnesum16 \/ EquivOnesum32
    \/ EquivLuhn \/ EquivLuhn256
    \/ EquivFletcher8 \/ EquivFletcher16 \/ EquivFletcher32

SpecEquiv == EquivInit /\ [][EquivNext]_vars

\* C17: onesum32_checksum and onesum32_checksum_textbook return the same
\* value for every input and every length.
C17_Onesum32MatchesTextbook ==
    op = "onesum32_checksum" => ret.fast = ret.textbook


\* C19: onesum8_checksum and onesum16_checksum return the same value as
\* their textbook versions for every input and every length.
C19_Onesum8And16MatchTextbook ==
    op \in {"onesum8_checksum", "onesum16_checksum"} => ret.fast = ret.textbook

\* onesum8 over 257 bytes 0xFF: the first block fills the 16-bit sum to 65280
\* before it is folded, and a second block follows.
C19_Witness ==
    /\ op = "onesum8_checksum"
    /\ arg.length = onesum8_blocklength_limit + 1
    /\ \A i \in 1..arg.length : buf[i] = UINT8_MAX
    /\ ret.fast = <<0>>
    /\ ret.textbook = <<0>>

\* onesum16 over an odd number of bytes beyond its block limit.
C19_Witness16 ==
    /\ op = "onesum16_checksum"
    /\ arg.length = onesum16_blocklength_limit + 3
    /\ buf[1] = 10
    /\ ret.fast = ret.textbook
    /\ ret.fast # <<UINT8_MAX, UINT8_MAX>>

\* C18: luhn_checksum and luhn_checksum_textbook return the same value on
\* every input: every byte value, every length, every base.
C18_LuhnMatchesTextbook ==
    op = "luhn_checksum" => ret.fast = ret.textbook

\* C20: fletcher8_checksum, fletcher16_checksum and fletcher32_checksum return
\* the value of the reference definition, which reduces both sums modulo base
\* after every nibble, byte or big-endian word and packs sum2 above sum1.
C20_FletcherMatchesReference ==
    op \in {"fletcher8_checksum", "fletcher16_checksum", "fletcher32_checksum"}
        => ret.fast = ret.textbook


-----------------------------------------------------------------------------
(* Specification SpecFletcher16: fletcher16_checksum executed statement by   *)
(* statement.  buf is the input array, cfg the length passed, arg the local  *)
(* variables length, blocksize and the offset of data, ret the accumulators  *)
(* sum1 and sum2 at the width of uint_fast16_t, pre the values the two       *)
(* additions of the last loop body have before they are cut to that width,   *)
(* op the position in the function.                                          *)

\* Number of blocks the inputs of SpecFletcher16 reach into.
F16Blocks == 2

F16MaxLen == F16Blocks * fletcher16_blocksize_limit + 1

\* Input arrays: all bytes 0xFF, 0xFE followed by 0xFF, a ramp, all zero.
F16Inputs ==
    { [i \in 1..F16MaxLen |-> UINT8_MAX],
      [i \in 1..F16MaxLen |-> IF i = 1 THEN UINT8_MAX - 1 ELSE UINT8_MAX],
      [i \in 1..F16MaxLen |-> (7 * i + 3) % 256],
      [i \in 1..F16MaxLen |-> 0] }

F16Lengths ==
    {0, 1} \cup UNION { {k * fletcher16_blocksize_limit, k * fletcher16_blocksize_limit + 1} :
                        k \in 1..F16Blocks }

\* uint_fast16_t sum1 = 0; uint_fast16_t sum2 = 0;
F16Init ==
    /\ buf \in F16Inputs
    /\ cfg \in [length : F16Lengths]
    /\ arg = [length |-> cfg.length, blocksize |-> 0, data |-> 0]
    /\ ret = [sum1 |-> 0, sum2 |-> 0]
    /\ pre = [sum1 |-> 0, sum2 |-> 0]
    /\ op = "while"

\* while (length > 0) { blocksize = ...; length -= blocksize;
F16Block ==
    /\ op = "while"
    /\ arg.length > 0
    /\ LET blocksize == IF arg.length > fletcher16_blocksize_limit
                        THEN fletcher16_blocksize_limit ELSE arg.length
       IN  arg' = [arg EXCEPT !.blocksize = blocksize, !.length = @ - blocksize]
    /\ op' = "block"
    /\ UNCHANGED <<buf, cfg, ret, pre>>

\* sum1 += *data++; sum2 += sum1; blocksize--;
F16Byte ==
    /\ op = "block"
    /\ arg.blocksize > 0
    /\ LET wide1 == ret.sum1 + buf[arg.data + 1]
           sum1 == wide1 % (UINT_FAST16_MAX + 1)
           wide2 == ret.sum2 + sum1
       IN  /\ pre' = [sum1 |-> wide1, sum2 |-> wide2]
           /\ ret' = [sum1 |-> sum1, sum2 |-> wide2 % (UINT_FAST16_MAX + 1)]
    /\ arg' = [arg EXCEPT !.data = @ + 1, !.blocksize = @ - 1]
    /\ UNCHANGED <<buf, cfg, op>>

\* sum1 %= base; sum2 %= base; }
F16Modulus ==
    /\ op = "block"
    /\ arg.blocksize = 0
    /\ ret' = [sum1 |-> ret.sum1 % 255, sum2 |-> ret.sum2 % 255]
    /\ pre' = ret'
    /\ op' = "while"
    /\ UNCHANGED <<buf, cfg, arg>>

\* return static_cast<uint16_t>(sum2 << 8 | sum1);
F16Return ==
    /\ op = "while"
    /\ arg.length = 0
    /\ op' = "return"
    /\ ret' = [value |-> UFromInt(BitOr((ret.sum2 * 256) % 65536, ret.sum1), 2)]
    /\ UNCHANGED <<buf, cfg, arg, pre>>

F16Next == F16Block \/ F16Byte \/ F16Modulus \/ F16Return

SpecFletcher16 == F16Init /\ [][F16Next]_vars

\* The statements compute the function: what is returned is
\* fletcher16_checksum(data, length).
F16ReturnsChecksum ==
    op = "return" => ret.value = fletcher16_checksum(buf, cfg.length)

\* C21: with the block size limit of 22 bytes for a 16-bit uint_fast16_t,
\* neither sum1 nor sum2 exceeds UINT_FAST16_MAX before the modulus at the end
\* of a block, whatever reduced sums the block starts from.
C21_BlockSumsFitAccumulator ==
    pre.sum1 <= UINT_FAST16_MAX /\ pre.sum2 <= UINT_FAST16_MAX


\* C22: luhn256_checksum returns the same value as luhn_checksum and
\* luhn_checksum_textbook called with base 0 (256), for every byte sequence and
\* every length.
C22_Luhn256MatchesGeneral ==
    op = "luhn256_checksum" => ret.fast = ret.general /\ ret.fast = ret.textbook

\* 129 bytes 0xFF: an odd length beyond luhn_checksum's block limit, every
\* doubled byte reduced by 0xFF.
C22_Witness ==
    /\ op = "luhn256_checksum"
    /\ arg.length = luhn_blocksize_limit_256 + 3
    /\ \A i \in 1..arg.length : buf[i] = UINT8_MAX
    /\ ret.fast = ret.general
    /\ ret.fast = ret.textbook


-----------------------------------------------------------------------------
(* Specification SpecDigits: luhn_checksum and luhn_checksum_textbook on a   *)
(* string of decimal digits, passed as its character codes or as its digit   *)
(* values.  The variables are used as in SpecEquiv.                          *)

\* The decimal digits of "7992739871".
C23_Digits == <<7, 9, 9, 2, 7, 3, 9, 8, 7, 1>>

\* The same string as raw bytes: the character code of digit d is '0' + d.
C23_CharCodes == [i \in 1..Len(C23_Digits) |-> 48 + C23_Digits[i]]

DigitsInit ==
    /\ buf \in {C23_CharCodes, C23_Digits}
    /\ cfg = << >>
    /\ pre = buf
    /\ op = "input"
    /\ arg = [length |-> 0, base |-> 0, ub |-> NoUB]
    /\ ret = [fast |-> << >>, textbook |-> << >>]

DigitsLuhn ==
    \E length \in 0..Len(buf) : \E base \in LuhnBases : \E ub \in DivChoices :
        EquivCall("luhn_checksum", length, base, ub,
                  luhn_checksum(buf, length, base, ub),
                  luhn_checksum_textbook(buf, length, base))

DigitsNext == DigitsLuhn

SpecDigits == DigitsInit /\ [][DigitsNext]_vars

\* C23: for the ten character codes of "7992739871" and base 10, luhn_checksum
\* and luhn_checksum_textbook return the same byte.
C23_DigitStringAgrees ==
    (/\ op = "luhn_checksum"
     /\ buf = C23_CharCodes
     /\ arg.length = Len(C23_CharCodes)
     /\ arg.base = 10)
        => ret.fast = ret.textbook


-----------------------------------------------------------------------------
(* Specification SpecFletcher32: fletcher32_checksum executed statement by   *)
(* statement.  buf is the input array, cfg the length passed, arg the local  *)
(* variables length, blocksize (uint_fast32_t, four digits) and the offset   *)
(* of data, ret the accumulators sum1 and sum2, op the position in the       *)
(* function.                                                                 *)

\* Number of blocks the inputs of SpecFletcher32 reach into.
F32Blocks == 2

F32MaxLen == F32Blocks * fletcher32_blocksize_limit + 3

\* Input arrays: all bytes 0xFF, 0xFE followed by 0xFF, a ramp, sparse ones.
F32Inputs ==
    { [i \in 1..F32MaxLen |-> UINT8_MAX],
      [i \in 1..F32MaxLen |-> IF i = 1 THEN UINT8_MAX - 1 ELSE UINT8_MAX],
      [i \in 1..F32MaxLen |-> (7 * i + 3) % 256],
      [i \in 1..F32MaxLen |-> IF i % 127 \in {0, 1, 2} THEN 1 ELSE 0] }

F32Lengths ==
    (0..3) \cup UNION { ((k * fletcher32_blocksize_limit - 1)..
                         (k * fletcher32_blocksize_limit + 3)) : k \in 1..F32Blocks }

\* modulus = length & 0x01; sum1 = 0; sum2 = 0; length -= modulus;
F32Init ==
    /\ buf \in F32Inputs
    /\ cfg \in [length : F32Lengths]
    /\ arg = [length |-> cfg.length - (cfg.length % 2), modulus |-> cfg.length % 2,
              blocksize |-> UZero(4), data |-> 0]
    /\ ret = [sum1 |-> 0, sum2 |-> 0]
    /\ pre = ret
    /\ op = "while"

\* while (length > 1) { blocksize = ...; length -= blocksize;
F32Block ==
    /\ op = "while"
    /\ arg.length > 1
    /\ LET blocksize == IF arg.length > fletcher32_blocksize_limit
                        THEN fletcher32_blocksize_limit ELSE arg.length
       IN  arg' = [arg EXCEPT !.blocksize = UFromInt(blocksize, 4), !.length = @ - blocksize]
    /\ op' = "block"
    /\ UNCHANGED <<buf, cfg, ret, pre>>

\* while (blocksize > 0) { number16 = *data++ << 8 | *data++; sum1 += number16;
\* sum2 += sum1; blocksize -= 2; }   blocksize is unsigned: 1 - 2 wraps to
\* UINT_FAST32_MAX.  A read beyond the array is not followed.
F32Word ==
    /\ op = "block"
    /\ arg.blocksize # UZero(4)
    /\ arg.data + 2 <= Len(buf)
    /\ LET number16 == BitOr(buf[arg.data + 1] * 256, buf[arg.data + 2])
       IN  ret' = [sum1 |-> ret.sum1 + number16, sum2 |-> ret.sum2 + ret.sum1 + number16]
    /\ arg' = [arg EXCEPT !.data = @ + 2,
                          !.blocksize = UAdd(@, UNeg(UFromInt(2, 4)))]
    /\ UNCHANGED <<buf, cfg, op, pre>>

\* sum1 %= base; sum2 %= base; }
F32Modulus ==
    /\ op = "block"
    /\ arg.blocksize = UZero(4)
    /\ ret' = [sum1 |-> ret.sum1 % UINT16_MAX, sum2 |-> ret.sum2 % UINT16_MAX]
    /\ op' = "while"
    /\ UNCHANGED <<buf, cfg, arg, pre>>

\* if (modulus) { sum1 = (sum1 + (*data << 8)) % base; sum2 = (sum2 + sum1) % base; }
F32Tail ==
    /\ op = "while"
    /\ arg.length <= 1
    /\ arg.modulus # 0
    /\ LET sum1 == (ret.sum1 + buf[arg.data + 1] * 256) % UINT16_MAX
       IN  ret' = [sum1 |-> sum1, sum2 |-> (ret.sum2 + sum1) % UINT16_MAX]
    /\ op' = "tail"
    /\ UNCHANGED <<buf, cfg, arg, pre>>

\* return static_cast<uint32_t>(sum2 << 16 | sum1);
F32Return ==
    /\ IF op = "while" THEN arg.length <= 1 /\ arg.modulus = 0 ELSE op = "tail"
    /\ op' = "return"
    /\ ret' = [value |-> UFromInt(ret.sum1, 2) \o UFromInt(ret.sum2 % 65536, 2)]
    /\ UNCHANGED <<buf, cfg, arg, pre>>

F32Next == F32Block \/ F32Word \/ F32Modulus \/ F32Tail \/ F32Return

SpecFletcher32 == F32Init /\ [][F32Next]_vars

\* The first n bytes of the input followed by 0x00.
C24_Padded(data, n) == [i \in 1..(n + 1) |-> IF i <= n THEN data[i] ELSE 0]

\* C24: for odd n the value returned for (d, n) is fletcher32_checksum of
\* d ++ [0x00] with length n + 1, and in every state the block counter is even,
\* so blocksize -= 2 never passes zero.
C24_OddByteIsZeroPadded ==
    /\ arg.blocksize[1] % 2 = 0
    /\ op = "return" =>
          /\ ret.value = fletcher32_checksum(buf, cfg.length)
          /\ cfg.length % 2 = 1 =>
                ret.value = fletcher32_checksum(C24_Padded(buf, cfg.length), cfg.length + 1)

\* 361 bytes have been summed: one full block, then the odd byte 0xFF as the
\* word 0xFF00.
C24_Witness ==
    /\ op = "return"
    /\ cfg.length = fletcher32_blocksize_limit + 1
    /\ \A i \in 1..cfg.length : buf[i] = UINT8_MAX
    /\ ret.value = fletcher32_checksum(C24_Padded(buf, cfg.length), cfg.length + 1)
    /\ ret.value # fletcher32_checksum(buf, cfg.length - 1)


-----------------------------------------------------------------------------
(* Specification SpecExamples: the four example message classes.  buf is    *)
(* the memory starting at msgarr: the SIZE bytes of the array and the bytes  *)
(* that follow it in the object and behind it.  cfg is the class, op the     *)
(* member function last called, arg the range [lo, hi) of offsets from       *)
(* msgarr it wrote to, pre the memory before the call, ret the value of      *)
(* check().                                                                  *)

\* class TankControl : public ByteMessage<TankControl_TYPE, TankControl_SIZE>
TankControl ==
    [TYPE |-> 30, SIZE |-> 4,
     members |-> << Member("field", "int8_t", 1, 1),
                    Member("field", "int8_t", 2, 1),
                    Member("checksum", "uint8_t", 13, 1) >>]

\* class AESkey : public ByteMessage<AESkey_TYPE, AESkey_SIZE>
AESkey ==
    [TYPE |-> 55, SIZE |-> 17,
     members |-> << Member("blob", "", 1, 16) >>]

\* class SensorData : public ByteMessage<SensorData_TYPE, SensorData_SIZE>
SensorData ==
    [TYPE |-> 66, SIZE |-> 7,
     members |-> << Member("field", "float", 1, 4),
                    Member("field", "uint8_t", 5, 1),
                    Member("checksum", "uint8_t", 6, 1) >>]

\* The classes with the function their checksum member is bound to and the
\* index the layout comment above the class gives for the checksum.
ExampleClasses ==
    { [cls |-> Point3D, checksum_function |-> "luhn256_checksum", index |-> 13],
      [cls |-> TankControl, checksum_function |-> "sum8_checksum", index |-> 3],
      [cls |-> AESkey, checksum_function |-> "", index |-> 0],
      [cls |-> SensorData, checksum_function |-> "xor8_checksum", index |-> 6] }

\* Bytes of memory modelled from msgarr on: the largest array.
ExMemLen == AESkey.SIZE

\* Values set: two speeds, two humidities, two floats, two key bytes.
ExValues(T) ==
    CASE T = "int8_t"  -> { [neg |-> TRUE, mag |-> <<100>>], [neg |-> FALSE, mag |-> <<100>>] }
      [] T = "uint8_t" -> { UVal(<<55>>), UVal(<<UINT8_MAX>>) }
      [] T = "float"   -> { <<154, 153, 49, 65>>, <<UINT8_MAX, UINT8_MAX, UINT8_MAX, UINT8_MAX>> }

\* The checksum member of the class in cfg.
ExChecksum ==
    LET m == CHOOSE m \in { cfg.cls.members[i] : i \in DOMAIN cfg.cls.members } :
                 m.kind = "checksum"
    IN  ByteMessageChecksum(0, m.pos, cfg.checksum_function)

\* A default-constructed message; the memory after the array holds anything.
ExInit ==
    /\ cfg \in ExampleClasses
    /\ \E fill \in {0, 170} :
          buf = Derived_default(cfg.cls) \o [i \in 1..(ExMemLen - cfg.cls.SIZE) |-> fill]
    /\ pre = buf
    /\ op = "constructed"
    /\ arg = [lo |-> 0, hi |-> cfg.cls.SIZE]
    /\ ret = FALSE

\* member.set(value) on a ByteMessageField<T>
ExSet ==
    \E i \in DOMAIN cfg.cls.members :
        LET m == cfg.cls.members[i]
        IN  /\ m.kind = "field"
            /\ \E value \in ExValues(m.T) :
                  buf' = IF m.T = "float" THEN set_float(buf, ByteMessageField(0, m.pos), value)
                         ELSE Field_set(m.T, buf, ByteMessageField(0, m.pos), value)
            /\ arg' = [lo |-> m.pos, hi |-> m.pos + m.size]
            /\ pre' = buf
            /\ op' = "set"
            /\ UNCHANGED <<cfg, ret>>

\* key.set(value) on a ByteMessageFieldBlob
ExBlobSet ==
    \E i \in DOMAIN cfg.cls.members : \E value \in {0, 123} :
        LET m == cfg.cls.members[i]
        IN  /\ m.kind = "blob"
            /\ buf' = Blob_set_value(buf, m.pos, m.size, value).buf
            /\ arg' = [lo |-> m.pos, hi |-> m.pos + m.size]
            /\ pre' = buf
            /\ op' = "set"
            /\ UNCHANGED <<cfg, ret>>

\* checksum.update(): calc() reads the pos bytes from msgarr on, set() writes
\* at msgarr + pos.  Where that is outside the array the behaviour is
\* undefined: the bytes are read from and stored into the memory behind the
\* array, or the access traps.
ExUpdate ==
    /\ cfg.checksum_function # ""
    /\ op # "fault"
    /\ LET c == ExChecksum
           hi == c.pos + sizeof(c.T)
       IN  /\ arg' = [lo |-> c.pos, hi |-> hi]
           /\ \E outcome \in (IF hi <= cfg.cls.SIZE THEN {"update"} ELSE {"update", "fault"}) :
                 /\ op' = outcome
                 /\ buf' = IF outcome = "update" THEN Checksum_update(buf, c, NoUB) ELSE buf
    /\ pre' = buf
    /\ UNCHANGED <<cfg, ret>>

\* checksum.check()
ExCheck ==
    /\ cfg.checksum_function # ""
    /\ op # "fault"
    /\ ExChecksum.pos + sizeof(ExChecksum.T) <= ExMemLen
    /\ ret' = Checksum_check(buf, ExChecksum, NoUB)
    /\ op' = "check"
    /\ arg' = [lo |-> 0, hi |-> 0]
    /\ pre' = buf
    /\ UNCHANGED <<cfg, buf>>

ExNext == ExSet \/ ExBlobSet \/ ExUpdate \/ ExCheck

SpecExamples == ExInit /\ [][ExNext]_vars

\* C25: in each example class every member's bytes lie in [1, SIZE), no two
\* members share a byte, the checksum member is at the index of the layout
\* comment, and no member function writes outside the array.
C25_MembersInsideArray ==
    LET ms == cfg.cls.members
    IN  /\ \A i \in DOMAIN ms : 1 <= ms[i].pos /\ ms[i].pos + ms[i].size <= cfg.cls.SIZE
        /\ \A i, j \in DOMAIN ms :
              i < j => \/ ms[i].pos + ms[i].size <= ms[j].pos
                       \/ ms[j].pos + ms[j].size <= ms[i].pos
        /\ \A i \in DOMAIN ms : ms[i].kind = "checksum" => ms[i].pos = cfg.index
        /\ 0 <= arg.lo /\ arg.hi <= cfg.cls.SIZE
        /\ \A i \in (cfg.cls.SIZE + 1)..ExMemLen : buf[i] = pre[i]


-----------------------------------------------------------------------------
(* Specification SpecLuhn: luhn_checksum executed statement by statement.    *)
(* buf is the input array, cfg the length and base passed and the outcome of *)
(* an undefined division, arg the local variables (end as the offset of the  *)
(* byte it points to), ret the accumulator sum at the width of               *)
(* uint_fast16_t, pre the values the two additions of the last loop body     *)
(* have before they are cut to that width, op the position in the function.  *)

\* Input lengths of SpecLuhn reach to this many bytes.
LuhnMaxLen == 201

\* Input arrays: all bytes 0xFF, digits of every base above 1, a ramp.
LuhnInputs ==
    { [i \in 1..LuhnMaxLen |-> UINT8_MAX],
      [i \in 1..LuhnMaxLen |-> i % 2],
      [i \in 1..LuhnMaxLen |-> (7 * i + 3) % 256] }

LuhnLengths == {0, 1, 2, 3, LuhnMaxLen - 1, LuhnMaxLen}

\* intbase, modulus, sum = 0, addend = 0
LuhnInit ==
    /\ buf \in LuhnInputs
    /\ cfg \in [length : LuhnLengths, base : LuhnBases, ub : DivChoices]
    /\ arg = [intbase |-> luhn_intbase(cfg.base), modulus |-> cfg.length % 2,
              length |-> cfg.length, blocksize_limit |-> 0, blocklength |-> 0, end |-> 0]
    /\ ret = [sum |-> 0]
    /\ pre = [first |-> 0, second |-> 0]
    /\ op = "start"

\* blocksize_limit = ((UINT_FAST16_MAX / (2*(intbase-1))) - 1) & ~0x01;
\* end = data + length - 1; length -= modulus;
LuhnLimit ==
    /\ op = "start"
    /\ LET divisor == 2 * (arg.intbase - 1)
           quotient == IF divisor = 0 THEN 0 ELSE UINT_FAST16_MAX \div divisor
           q1 == (quotient + UINT_FAST16_MAX) % (UINT_FAST16_MAX + 1)
       IN  IF divisor = 0 /\ cfg.ub.div = "trap"
           THEN op' = "fault" /\ arg' = arg
           ELSE /\ op' = "while"
                /\ arg' = [arg EXCEPT !.blocksize_limit = q1 - (q1 % 2),
                                      !.end = cfg.length,
                                      !.length = @ - arg.modulus]
    /\ UNCHANGED <<buf, cfg, ret, pre>>

\* while (length > 0) { blocklength = ...; length -= blocklength;
LuhnBlock ==
    /\ op = "while"
    /\ arg.length > 0
    /\ LET blocklength == IF arg.length > arg.blocksize_limit
                          THEN arg.blocksize_limit ELSE arg.length
       IN  arg' = [arg EXCEPT !.blocklength = blocklength, !.length = @ - blocklength]
    /\ op' = "block"
    /\ UNCHANGED <<buf, cfg, ret, pre>>

\* addend = *end-- * 2; sum += (addend < intbase) ? addend : addend - (intbase-1);
\* sum += *end--; blocklength -= 2;
LuhnPair ==
    /\ op = "block"
    /\ arg.blocklength > 0
    /\ LET addend == buf[arg.end] * 2
           first == ret.sum + (IF addend < arg.intbase THEN addend
                               ELSE addend - (arg.intbase - 1))
           second == (first % (UINT_FAST16_MAX + 1)) + buf[arg.end - 1]
       IN  /\ pre' = [first |-> first, second |-> second]
           /\ ret' = [sum |-> second % (UINT_FAST16_MAX + 1)]
    /\ arg' = [arg EXCEPT !.end = @ - 2,
                          !.blocklength = (@ + UINT_FAST16_MAX - 1) % (UINT_FAST16_MAX + 1)]
    /\ UNCHANGED <<buf, cfg, op>>

\* sum %= intbase; }
LuhnModulus ==
    /\ op = "block"
    /\ arg.blocklength = 0
    /\ ret' = [sum |-> ret.sum % arg.intbase]
    /\ pre' = [first |-> ret'.sum, second |-> ret'.sum]
    /\ op' = "while"
    /\ UNCHANGED <<buf, cfg, arg>>

\* if (modulus) { addend = *end * 2; sum += ...; sum = (sum < intbase) ? sum : sum - intbase; }
LuhnTail ==
    /\ op = "while"
    /\ arg.length = 0
    /\ arg.modulus # 0
    /\ LET addend == buf[arg.end] * 2
           first == ret.sum + (IF addend < arg.intbase THEN addend
                               ELSE addend - (arg.intbase - 1))
           sum == first % (UINT_FAST16_MAX + 1)
       IN  /\ pre' = [first |-> first, second |-> sum]
           /\ ret' = [sum |-> IF sum < arg.intbase THEN sum ELSE sum - arg.intbase]
    /\ op' = "tail"
    /\ UNCHANGED <<buf, cfg, arg>>

\* return static_cast<uint8_t>((intbase - sum) % intbase);
LuhnReturn ==
    /\ IF op = "while" THEN arg.length = 0 /\ arg.modulus = 0 ELSE op = "tail"
    /\ op' = "return"
    /\ ret' = [value |-> luhn_result(arg.intbase, ret.sum)]
    /\ UNCHANGED <<buf, cfg, arg, pre>>

LuhnNext ==
    LuhnLimit \/ LuhnBlock \/ LuhnPair \/ LuhnModulus \/ LuhnTail \/ LuhnReturn

SpecLuhn == LuhnInit /\ [][LuhnNext]_vars

\* The statements compute the function: what is returned is
\* luhn_checksum(data, length, base).
LuhnReturnsChecksum ==
    op = "return" => ret.value = luhn_checksum(buf, cfg.length, cfg.base, cfg.ub)

\* C26: with the block size limit computed from the base, the running sum
\* never exceeds UINT_FAST16_MAX between two modulus operations, for every
\* base and any input bytes, bytes that are not below the base included.
C26_LuhnSumFitsAccumulator ==
    pre.first <= UINT_FAST16_MAX /\ pre.second <= UINT_FAST16_MAX


-----------------------------------------------------------------------------
(* Specification SpecMessageType: one message object of a derived class,    *)
(* with the calls of SpecMessage and the members' set() and update().       *)

\* ByteMessageField<bool>::set(value): *msgptr = (value) ? 1 : 0
Bool_set(b, msgptr, value) == [b EXCEPT ![msgptr + 1] = IF value THEN 1 ELSE 0]

\* member.set(value) on a ByteMessageField<T>, T an integer type
MsgSet ==
    \E i \in DOMAIN cfg.members : \E v \in {1, UINT8_MAX} :
        LET m == cfg.members[i]
        IN  /\ m.kind = "field"
            /\ buf' = Field_set(m.T, buf, ByteMessageField(0, m.pos),
                                UVal([j \in 1..sizeof(m.T) |-> v]))
            /\ pre' = buf
            /\ op' = "set"
            /\ arg' = [raw |-> << >>, n |-> m.pos]
            /\ ret' = FALSE
            /\ UNCHANGED cfg

\* member.set(value) on a ByteMessageField<bool>
MsgBoolSet ==
    \E i \in DOMAIN cfg.members : \E value \in BOOLEAN :
        LET m == cfg.members[i]
        IN  /\ m.kind = "bool"
            /\ buf' = Bool_set(buf, ByteMessageField(0, m.pos), value)
            /\ pre' = buf
            /\ op' = "set"
            /\ arg' = [raw |-> << >>, n |-> m.pos]
            /\ ret' = FALSE
            /\ UNCHANGED cfg

\* member.set(value) on a ByteMessageFieldBlob
MsgBlobSet ==
    \E i \in DOMAIN cfg.members : \E value \in {0, 123} :
        LET m == cfg.members[i]
        IN  /\ m.kind = "blob"
            /\ buf' = Blob_set_value(buf, m.pos, m.size, value).buf
            /\ pre' = buf
            /\ op' = "set"
            /\ arg' = [raw |-> << >>, n |-> m.pos]
            /\ ret' = FALSE
            /\ UNCHANGED cfg

\* checksum.update(), the member bound to a function returning uint8_t
MsgUpdate ==
    \E i \in DOMAIN cfg.members :
        \E fn \in {"sum8_checksum", "xor8_checksum", "luhn256_checksum"} :
            LET m == cfg.members[i]
            IN  /\ m.kind = "checksum"
                /\ buf' = Checksum_update(buf, ByteMessageChecksum(0, m.pos, fn), NoUB)
                /\ pre' = buf
                /\ op' = "update"
                /\ arg' = [raw |-> << >>, n |-> m.pos]
                /\ ret' = FALSE
                /\ UNCHANGED cfg

MsgTypeNext ==
    \/ MsgPopulate \/ MsgCopy \/ MsgAssign
    \/ MsgSet \/ MsgBoolSet \/ MsgBlobSet \/ MsgUpdate

SpecMessageType == MsgInit /\ [][MsgTypeNext]_vars

\* C27: byte 0 of the message array equals TYPE in every reachable state.
C27_TypeByteIsType == buf[1] = cfg.TYPE

\* populate() has refused an array of the right size with another type byte,
\* on a message whose members had been written.
C27_Witness ==
    /\ op = "populate"
    /\ ~ret
    /\ arg.n = cfg.SIZE
    /\ arg.raw[1] # cfg.TYPE
    /\ buf # Derived_default(cfg)
    /\ buf[1] = cfg.TYPE


-----------------------------------------------------------------------------
(* Specification SpecTamper: a message with a one-byte checksum member that  *)
(* is brought up to date, has one byte before the checksum replaced through  *)
(* a field, and is checked.  cfg.c is the checksum member, pre the array as  *)
(* the last update() left it, arg the offset and value last set, ret the     *)
(* value of the last check().                                                *)

\* The checksum member is bound at offsets up to this one.
TamperMaxPos == 3

\* The functions returning uint8_t that detect any change of one byte.
TamperFunctions == {"sum8_checksum", "xor8_checksum", "luhn256_checksum"}

TamperInit ==
    /\ \E fn \in TamperFunctions : \E pos \in 1..TamperMaxPos :
          cfg = [c |-> ByteMessageChecksum(0, pos, fn), ub |-> NoUB]
    /\ buf = [i \in 1..(TamperMaxPos + 2) |-> 16 * i + 1]
    /\ pre = buf
    /\ op = "ctor"
    /\ arg = [offset |-> 0, value |-> 0]
    /\ ret = FALSE

\* checksum.update()
TamperUpdate ==
    /\ buf' = Checksum_update(buf, cfg.c, cfg.ub)
    /\ pre' = buf'
    /\ op' = "update"
    /\ UNCHANGED <<arg, ret, cfg>>

\* set() on a ByteMessageField<uint8_t> bound before the checksum, with a
\* value other than the one stored, on a message that is up to date.
TamperSet ==
    /\ op # "ctor"
    /\ buf = pre
    /\ \E offset \in 0..(cfg.c.pos - 1) : \E value \in {0, 1, 127, 128, UINT8_MAX} :
          /\ value # buf[offset + 1]
          /\ buf' = set_uint8_t(buf, ByteMessageField(0, offset), UVal(<<value>>))
          /\ arg' = [offset |-> offset, value |-> value]
    /\ op' = "set"
    /\ UNCHANGED <<pre, ret, cfg>>

\* checksum.check()
TamperCheck ==
    /\ op # "ctor"
    /\ ret' = Checksum_check(buf, cfg.c, cfg.ub)
    /\ op' = "check"
    /\ UNCHANGED <<buf, pre, arg, cfg>>

TamperNext == TamperUpdate \/ TamperSet \/ TamperCheck

SpecTamper == TamperInit /\ [][TamperNext]_vars

\* C28: after update(), replacing one byte before the checksum by another
\* value leaves the stored checksum as it was and makes check() return false,
\* until update() is called again.
C28_SingleByteChangeIsDetected ==
    LET c == cfg.c
        stored(b) == SubSeq(b, c.pos + 1, c.pos + sizeof(c.T))
    IN  /\ op = "update" => Checksum_check(buf, c, cfg.ub)
        /\ (op # "ctor" /\ buf # pre) =>
              /\ buf[cfg.c.pos + 1] = pre[cfg.c.pos + 1]
              /\ ~Checksum_check(buf, c, cfg.ub)
        /\ op = "check" => ret = (buf = pre)

\* check() has returned false on a luhn256 message whose last byte before the
\* checksum, the one counted twice, went from 0 to 128.
C28_Witness ==
    /\ op = "check"
    /\ ~ret
    /\ cfg.c.checksum_function = "luhn256_checksum"
    /\ arg.offset = cfg.c.pos - 1
    /\ pre[arg.offset + 1] = 0
    /\ buf[arg.offset + 1] = 128
    /\ buf[cfg.c.pos + 1] = pre[cfg.c.pos + 1]


\* C29: for every base, length and input, luhn_checksum and
\* luhn_checksum_textbook return, without an arithmetic fault, a value in
\* [0, base), base 0 standing for 256.
C29_LuhnNeverFaults ==
    op \in {"luhn_checksum", "luhn_checksum_textbook"} =>
        /\ ret # Fault
        /\ ret[1] \in 0..(luhn_intbase(arg.base) - 1)


-----------------------------------------------------------------------------
(* Specification SpecOnesum8: onesum8_checksum executed statement by         *)
(* statement.  buf is the input array, cfg the length passed, arg the local  *)
(* variables length, blocklength and the offset of data, ret the accumulator *)
(* sum at the width of uint_fast16_t, pre the value the last addition has    *)
(* before it is cut to that width, op the position in the function.          *)

\* Number of blocks the inputs of SpecOnesum8 reach into.
O8Blocks == 2

O8MaxLen == O8Blocks * onesum8_blocklength_limit + 1

\* Input arrays: all bytes 0xFF, 0xFE followed by 0xFF, a ramp, all zero.
O8Inputs ==
    { [i \in 1..O8MaxLen |-> UINT8_MAX],
      [i \in 1..O8MaxLen |-> IF i = 1 THEN UINT8_MAX - 1 ELSE UINT8_MAX],
      [i \in 1..O8MaxLen |-> (7 * i + 3) % 256],
      [i \in 1..O8MaxLen |-> 0] }

O8Lengths ==
    {0, 1} \cup UNION { {k * onesum8_blocklength_limit, k * onesum8_blocklength_limit + 1} :
                        k \in 1..O8Blocks }

\* uint_fast16_t sum = 0;
O8Init ==
    /\ buf \in O8Inputs
    /\ cfg \in [length : O8Lengths]
    /\ arg = [length |-> cfg.length, blocklength |-> 0, data |-> 0]
    /\ ret = [sum |-> 0]
    /\ pre = [sum |-> 0]
    /\ op = "while"

\* while (length > 0) { blocklength = ...; length -= blocklength;
O8Block ==
    /\ op = "while"
    /\ arg.length > 0
    /\ LET blocklength == IF arg.length > onesum8_blocklength_limit
                          THEN onesum8_blocklength_limit ELSE arg.length
       IN  arg' = [arg EXCEPT !.blocklength = blocklength, !.length = @ - blocklength]
    /\ op' = "block"
    /\ UNCHANGED <<buf, cfg, ret, pre>>

\* sum += static_cast<uint_fast16_t>(*data++); blocklength -= 1;
O8Byte ==
    /\ op = "block"
    /\ arg.blocklength > 0
    /\ pre' = [sum |-> ret.sum + buf[arg.data + 1]]
    /\ ret' = [sum |-> pre'.sum % (UINT_FAST16_MAX + 1)]
    /\ arg' = [arg EXCEPT !.data = @ + 1, !.blocklength = @ - 1]
    /\ UNCHANGED <<buf, cfg, op>>

\* while (sum >> 8) { sum = (sum >> 8) + (sum & 0xFF); } }
O8Fold ==
    /\ op = "block"
    /\ arg.blocklength = 0
    /\ ret' = [sum |-> fold8(ret.sum)]
    /\ pre' = ret'
    /\ op' = "while"
    /\ UNCHANGED <<buf, cfg, arg>>

\* return ~(static_cast<uint8_t>(sum));
O8Return ==
    /\ op = "while"
    /\ arg.length = 0
    /\ op' = "return"
    /\ ret' = [sum |-> ret.sum, value |-> UFromInt(UINT8_MAX - (ret.sum % 256), 1)]
    /\ UNCHANGED <<buf, cfg, arg, pre>>

O8Next == O8Block \/ O8Byte \/ O8Fold \/ O8Return

SpecOnesum8 == O8Init /\ [][O8Next]_vars

\* C30: the 16-bit accumulator never exceeds 65535 before the carry fold of a
\* block, and after each fold the sum is at most 255.
C30_Onesum8SumFitsAccumulator ==
    /\ pre.sum <= UINT_FAST16_MAX
    /\ op \in {"while", "return"} => ret.sum <= UINT8_MAX
    /\ op = "return" => ret.value = onesum8_checksum(buf, cfg.length)

\* The second block of 256 bytes 0xFF, begun with the folded sum 255, has
\* filled the accumulator to exactly 65535.
C30_Witness ==
    /\ op = "block"
    /\ arg.blocklength = 0
    /\ arg.data = 2 * onesum8_blocklength_limit
    /\ pre.sum = UINT_FAST16_MAX
    /\ ret.sum = UINT_FAST16_MAX

=============================================================================
